---- MODULE Spec2Model ----
(***************************************************************************)
(* EtherCAT master core: the cyclic engine (src/src/cyclic.rs) on top of   *)
(* the interface that owns the staging buffer (src/src/interface.rs).      *)
(*                                                                         *)
(* Indices are 0-based as in the source; TLA+ sequences are 1-based, so    *)
(* slot i of `units` is units[i + 1] and byte i of `buffer` is buffer[i+1].*)
(***************************************************************************)
EXTENDS Integers, Sequences, FiniteSets, TLC

VARIABLES
    units,              \* CyclicUnits.units : Vec<Unit<C>, 10>
    free_unit,          \* CyclicUnits.free_unit : UnitHandle
    buffer,             \* EtherCATInterface.buffer : the staging buffer, a byte sequence
    data_size,          \* EtherCATInterface.data_size
    should_recv_frames, \* EtherCATInterface.should_recv_frames
    wire,               \* the device: frames sent and not yet returned, oldest first
    rx_size,            \* receive(): its local data_size
    complete,           \* poll(): is_all_commands_enqueued of the last enqueue pass
    ret,                \* value returned by the last finished API call
    pc,                 \* position of the caller: "idle" between API calls
    adds_ok,            \* history: add_unit calls that returned Ok
    removes_some,       \* history: remove_unit calls that returned Some
    handle_of,          \* history: unit id -> handle add_unit returned for it
    staged,             \* history: the (index, command, payload) add_command accepted
    sent_frames,        \* history: the frames handed to the device by the last transmit
    consumed,           \* the PDU views the last consume_command handed out
    arrived,            \* history: the indices of the PDUs received in the last interface poll
    calls,              \* history: the number of API calls made
    hist,               \* history: per slot, the calls its unit has observed
    delivered,          \* history: per slot, what the last dispatch pass delivered
    al,                 \* an AlStateTransfer (cyclic/al_state_transfer.rs)
    sdo,                \* an SdoDownloader (cyclic/sdo_downloader.rs)
    desc,               \* NetworkDescription: mailbox_count of the slave record
    sys_time,           \* EtherCatSystemTime handed to the unit by the last call
    unit_sent,          \* Unit((C, bool)): the sent flag of the slot of the unit
    out,                \* what the last call on the unit returned, and the call before it
    mb                  \* a call of the blocking mailbox() (mailbox.rs): arguments, locals, position

allocVars == <<units, free_unit>>
ifaceVars == <<buffer, data_size, should_recv_frames, wire, rx_size>>
histVars == <<adds_ok, removes_some, handle_of, staged, sent_frames>>
obsVars == <<hist, delivered>>
unitVars == <<al, sdo, desc, sys_time, unit_sent, out, mb>>
engineVars == <<units, free_unit, complete>>
vars == <<units, free_unit, buffer, data_size, should_recv_frames, wire, rx_size,
          complete, ret, pc, adds_ok, removes_some, handle_of, staged, sent_frames,
          consumed, arrived, calls, hist, delivered, al, sdo, desc, sys_time,
          unit_sent, out, mb>>

(***************************************************************************)
(* Program constants and bounds                                            *)
(***************************************************************************)
\* capacity of Vec<Unit<C>, 10>
UNITS_CAPACITY == 10

\* unit values the caller owns in the allocator runs (one more than the capacity)
AllocUnitPool == 11
\* remove_unit calls that return Some, per allocator run
MaxRemoves == 3
\* API calls per allocator run
MaxAllocCalls == 14
\* API calls per run on the interface: add_command and consume_command alone,
\* and with poll
MaxCodecCalls == 8
MaxIfaceCalls == 6
\* API calls per run on the engine
MaxEngineCalls == 5
\* API calls per run on the engine with the reliable device
MaxReliableCalls == 4
\* slots in use, unit values the caller owns and commands per start in the engine runs
MaxSlots == 3
EngineUnitPool == 4
MaxSteps == 2
\* calls of start on the AlStateTransfer of a run
MaxAlStarts == 2
\* API calls per run on the interface staging short PDUs
MaxTransmitCalls == 5

NoHandle == 255

\* packet::ethercat wire constants
ETHERNET_HEADER_LENGTH == 14
ETHERCAT_HEADER_LENGTH == 2
ETHERCATPDU_HEADER_LENGTH == 10
WKC_LENGTH == 2

\* buffer.len() of the staging buffer given to EtherCATInterface::new
BufferSize == 40
\* ethdev.max_transmission_unit()
Mtu == 33
\* frames the device holds in flight at most
MaxInflight == 2

(***************************************************************************)
(* Unit slots (enum Unit<C>)                                               *)
(***************************************************************************)
\* the unit value C, a CyclicProcess: its identity and the number of commands
\* it still has to emit (0: idle, complete or in error)
Unit(id, steps) == [id |-> id, steps |-> steps]
NewUnit(id) == Unit(id, 0)
NoUnit == Unit(0, 0)

\* Unit::NextFreeUnit(UnitHandle(next))
NextFreeUnit(next) == [tag |-> "NextFreeUnit", next |-> next, unit |-> NoUnit, sent |-> FALSE]
\* Unit::Unit((unit, sent))
UnitSlot(unit, sent) == [tag |-> "Unit", next |-> 0, unit |-> unit, sent |-> sent]

IsOccupied(us, i) == i < Len(us) /\ us[i + 1].tag = "Unit"
IsFree(us, i) == i < Len(us) /\ us[i + 1].tag = "NextFreeUnit"
OccupiedSlots(us) == {i \in 0..(Len(us) - 1) : us[i + 1].tag = "Unit"}
FreeSlots(us) == {i \in 0..(Len(us) - 1) : us[i + 1].tag = "NextFreeUnit"}
IdsIn(us) == {us[i + 1].unit.id : i \in OccupiedSlots(us)}

\* the value an API call returned: Ok/Some (ok) or Err/None, with what it carries
Ret(op, ok, handle, unit, err) ==
    [op |-> op, ok |-> ok, handle |-> handle, unit |-> unit, err |-> err, len |-> 0]

(***************************************************************************)
(* CyclicUnits::add_unit                                                   *)
(***************************************************************************)
\* mutant: the push is not bounded by the capacity of the Vec
add_unit_NoCapacity(us, fu, unit) ==
    IF fu < Len(us)
    THEN IF us[fu + 1].tag = "NextFreeUnit"
         THEN [units |-> [us EXCEPT ![fu + 1] = UnitSlot(unit, FALSE)],
               free_unit |-> us[fu + 1].next,
               ret |-> Ret("add_unit", TRUE, fu, NoUnit, ""),
               panic |-> FALSE]
         ELSE [units |-> us, free_unit |-> fu,
               ret |-> Ret("add_unit", FALSE, NoHandle, unit, ""),
               panic |-> TRUE]
    ELSE [units |-> Append(us, UnitSlot(unit, FALSE)),
          free_unit |-> fu + 1,
          ret |-> Ret("add_unit", TRUE, fu, NoUnit, ""),
          panic |-> FALSE]

\* add_unit(unit): the new slot array and head, the returned value, and
\* whether the unreachable!() branch was hit
add_unit(us, fu, unit) ==
    IF fu < Len(us)
    THEN IF us[fu + 1].tag = "NextFreeUnit"
         THEN [units |-> [us EXCEPT ![fu + 1] = UnitSlot(unit, FALSE)],
               free_unit |-> us[fu + 1].next,
               ret |-> Ret("add_unit", TRUE, fu, NoUnit, ""),
               panic |-> FALSE]
         ELSE [units |-> us, free_unit |-> fu,
               ret |-> Ret("add_unit", FALSE, NoHandle, unit, ""),
               panic |-> TRUE]
    ELSE IF Len(us) < UNITS_CAPACITY
         THEN [units |-> Append(us, UnitSlot(unit, FALSE)),
               free_unit |-> fu + 1,
               ret |-> Ret("add_unit", TRUE, fu, NoUnit, ""),
               panic |-> FALSE]
         ELSE [units |-> us, free_unit |-> fu,
               ret |-> Ret("add_unit", FALSE, NoHandle, unit, ""),
               panic |-> FALSE]

(***************************************************************************)
(* CyclicUnits::remove_unit                                                *)
(***************************************************************************)
\* mutant: the slot is taken out of the array, as Vec::remove does, so the
\* slots behind it move down
remove_unit_Shift(us, fu, h) ==
    IF h < Len(us) /\ us[h + 1].tag = "Unit"
    THEN [units |-> [k \in 1..(Len(us) - 1) |-> IF k <= h THEN us[k] ELSE us[k + 1]],
          free_unit |-> IF fu > h THEN fu - 1 ELSE fu,
          ret |-> Ret("remove_unit", TRUE, h, us[h + 1].unit, "")]
    ELSE [units |-> us, free_unit |-> fu,
          ret |-> Ret("remove_unit", FALSE, h, NoUnit, "")]

\* mutant: the variant of the slot is not looked at, so a Free slot is linked
\* into the free list again
remove_unit_Relink(us, fu, h) ==
    IF h < Len(us)
    THEN [units |-> [us EXCEPT ![h + 1] = NextFreeUnit(fu)],
          free_unit |-> h,
          ret |-> Ret("remove_unit", us[h + 1].tag = "Unit", h, us[h + 1].unit, "")]
    ELSE [units |-> us, free_unit |-> fu,
          ret |-> Ret("remove_unit", FALSE, h, NoUnit, "")]

\* mutant: the freed slot is linked but the head is not moved to it
remove_unit_KeepHead(us, fu, h) ==
    IF h < Len(us) /\ us[h + 1].tag = "Unit"
    THEN [units |-> [us EXCEPT ![h + 1] = NextFreeUnit(fu)],
          free_unit |-> fu,
          ret |-> Ret("remove_unit", TRUE, h, us[h + 1].unit, "")]
    ELSE [units |-> us, free_unit |-> fu,
          ret |-> Ret("remove_unit", FALSE, h, NoUnit, "")]

\* remove_unit(unit_handle): the new slot array and head and the returned value
remove_unit(us, fu, h) ==
    IF h < Len(us) /\ us[h + 1].tag = "Unit"
    THEN [units |-> [us EXCEPT ![h + 1] = NextFreeUnit(fu)],
          free_unit |-> h,
          ret |-> Ret("remove_unit", TRUE, h, us[h + 1].unit, "")]
    ELSE [units |-> us, free_unit |-> fu,
          ret |-> Ret("remove_unit", FALSE, h, NoUnit, "")]

\* get_unit(unit_handle): the unit, or NoUnit for None
get_unit(us, h) ==
    IF h < Len(us) /\ us[h + 1].tag = "Unit" THEN us[h + 1].unit ELSE NoUnit

(***************************************************************************)
(* The free list: free_unit, then the NextFreeUnit links                   *)
(***************************************************************************)
RECURSIVE FreeWalk(_, _, _, _)
\* the indices visited from i, in order, stopping at an index that is not a
\* Free slot or after `fuel` links
FreeWalk(us, i, fuel, acc) ==
    IF fuel = 0 \/ ~IsFree(us, i)
    THEN [visited |-> acc, end |-> i]
    ELSE FreeWalk(us, us[i + 1].next, fuel - 1, Append(acc, i))

FreeList(us, fu) == FreeWalk(us, fu, Len(us) + 1, <<>>)

SeqToSet(s) == {s[k] : k \in 1..Len(s)}
NoRepeat(s) == \A a, b \in 1..Len(s) : s[a] = s[b] => a = b

(***************************************************************************)
(* packet::ethercat: the PDU codec (wire format of the PDU)                *)
(***************************************************************************)
\* the command kinds: APRD, APWR, FPRD, FPWR, BRD, BWR, LRD, LWR, LRW, ARMW, FRMW
CommandTypes == {1, 2, 4, 5, 7, 8, 10, 11, 12, 13, 14}
\* CommandType::new(u8): a byte that is no command kind reads as NOP (0)
CommandTypeNew(b) == IF b \in CommandTypes THEN b ELSE 0

Lo(x) == x % 256
Hi(x) == (x \div 256) % 256

\* the 10 header bytes after set_index, set_command_type, set_adp, set_ado and
\* set_length on a zeroed header: command type, index, ADP, ADO (little
\* endian), the 11-bit length, IRQ
PduHeader(pdu_index, command, adp, ado, length) ==
    <<command % 256, pdu_index % 256, Lo(adp), Hi(adp), Lo(ado), Hi(ado),
      Lo(length), Hi(length) % 8, 0, 0>>

\* accessors of a PDU view p (header, payload, WKC)
PduCommandType(p) == p[1]
PduIndex(p) == p[2]
PduAdp(p) == p[3] + 256 * p[4]
PduAdo(p) == p[5] + 256 * p[6]
PduLength(p) == p[7] + 256 * (p[8] % 8)
PduData(p) == SubSeq(p, ETHERCATPDU_HEADER_LENGTH + 1,
                      ETHERCATPDU_HEADER_LENGTH + PduLength(p))
PduWkc(p) == p[ETHERCATPDU_HEADER_LENGTH + PduLength(p) + 1]
              + 256 * p[ETHERCATPDU_HEADER_LENGTH + PduLength(p) + 2]

\* what a PDU view says it carries
PduFields(p) ==
    [index |-> PduIndex(p), command |-> CommandTypeNew(PduCommandType(p)),
     adp |-> PduAdp(p), ado |-> PduAdo(p), data |-> PduData(p)]

RECURSIVE PduWalk(_, _, _, _)
\* the iterator EtherCATPDUs: the views of the PDUs that lie whole inside
\* buf[0..length], from offset off on
PduWalk(buf, length, off, acc) ==
    IF off + ETHERCATPDU_HEADER_LENGTH > length
    THEN acc
    ELSE LET total == ETHERCATPDU_HEADER_LENGTH
                      + (buf[off + 7] + 256 * (buf[off + 8] % 8)) + WKC_LENGTH
         IN IF off + total > length
            THEN acc
            ELSE PduWalk(buf, length, off + total,
                         Append(acc, SubSeq(buf, off + 1, off + total)))

\* EtherCATPDUs::new(buffer, length, 0), collected
EtherCATPDUs(buf, length) == PduWalk(buf, length, 0, <<>>)

\* buf with `bytes` copied to buf[off..off + bytes.len()]
SliceWrite(buf, off, bytes) ==
    [i \in 1..Len(buf) |->
        IF off < i /\ i <= off + Len(bytes) THEN bytes[i - off] ELSE buf[i]]

(***************************************************************************)
(* EtherCATInterface                                                       *)
(***************************************************************************)
buffer_size == BufferSize

\* what the caller's buffer may hold when it is handed to EtherCATInterface::new
InitialBytes == {0}

\* remaing_capacity() for data_size d. The subtraction is in usize: a negative
\* difference panics when the build checks overflow, and otherwise wraps to a
\* value within 3 of usize::MAX (wrapped), which no payload length exceeds
remaing_capacity(d, overflow_checks) ==
    LET v == buffer_size - d - ETHERCAT_HEADER_LENGTH - WKC_LENGTH IN
    IF v >= 0 THEN [value |-> v, wrapped |-> FALSE, panic |-> FALSE]
    ELSE IF overflow_checks THEN [value |-> v, wrapped |-> FALSE, panic |-> TRUE]
    ELSE [value |-> v, wrapped |-> TRUE, panic |-> FALSE]

\* remaing_capacity() < len, in usize
CapacityBelow(cap, len) == ~cap.wrapped /\ cap.value < len

\* an add_command that does not count the WKC trailer in data_size
add_command_SkipTrailer(buf, d, pdu_index, command, adp, ado, data) ==
    LET len == Len(data)
        body == d + ETHERCATPDU_HEADER_LENGTH
    IN IF d + ETHERCAT_HEADER_LENGTH + len + WKC_LENGTH > buffer_size
       THEN [res |-> "BufferExhausted", buffer |-> buf, data_size |-> d]
       ELSE IF body + len + 2 >= Len(buf)
       THEN [res |-> "panic", buffer |-> buf, data_size |-> d]
       ELSE [res |-> "Ok",
             buffer |-> SliceWrite(SliceWrite(buf, d, PduHeader(pdu_index, command, adp,
                                                                 ado, len)),
                                   body, data),
             data_size |-> d + ETHERCATPDU_HEADER_LENGTH + len]

\* add_command(pdu_index, command, adp, ado, data.len(), |buf| copy data):
\* the result ("Ok", "BufferExhausted", or "panic" when an index is out of
\* the buffer), the buffer and data_size after it
add_command(buf, d, pdu_index, command, adp, ado, data) ==
    LET len == Len(data)
        body == d + ETHERCATPDU_HEADER_LENGTH
    IN IF d + ETHERCAT_HEADER_LENGTH + len + WKC_LENGTH > buffer_size
       THEN [res |-> "BufferExhausted", buffer |-> buf, data_size |-> d]
       ELSE IF len > Mtu - (ETHERNET_HEADER_LENGTH + ETHERCAT_HEADER_LENGTH
                            + ETHERCATPDU_HEADER_LENGTH + WKC_LENGTH)
       THEN [res |-> "BufferExhausted", buffer |-> buf, data_size |-> d]
       ELSE IF body + len + 2 >= Len(buf)
       THEN [res |-> "panic", buffer |-> buf, data_size |-> d]
       ELSE [res |-> "Ok",
             buffer |-> [i \in 1..Len(buf) |->
                 IF d < i /\ i <= body
                 THEN PduHeader(pdu_index, command, adp, ado, len)[i - d]
                 ELSE IF body < i /\ i <= body + len THEN data[i - body]
                 ELSE IF i = body + len + 1 + 1 \/ i = body + len + 2 + 1 THEN 0
                 ELSE buf[i]],
             data_size |-> d + ETHERCATPDU_HEADER_LENGTH + len + WKC_LENGTH]

\* consume_command(): the PDU views handed out; data_size becomes 0
consume_command(buf, d) == EtherCATPDUs(buf, d)

(***************************************************************************)
(* EtherCATInterface::transmit                                             *)
(***************************************************************************)
RECURSIVE FitPrefix(_, _, _)
\* the walk `for pdu in pdus` that sizes a frame, from the first staged PDU:
\* the summed size and the number of the PDUs taken before the break
FitPrefix(pdus, k, send_size) ==
    IF k > Len(pdus)
    THEN [size |-> send_size, count |-> k - 1]
    ELSE LET pdu_len == PduLength(pdus[k]) + ETHERCATPDU_HEADER_LENGTH + WKC_LENGTH
         IN IF Mtu > send_size + pdu_len
            THEN FitPrefix(pdus, k + 1, send_size + pdu_len)
            ELSE [size |-> send_size, count |-> k - 1]

\* EtherCATFrame::add_command(command, adp, ado, data, Some(index)): the PDU
\* as it is written into the frame, with a zero WKC
FramePdu(p) ==
    PduHeader(PduIndex(p), CommandTypeNew(PduCommandType(p)), PduAdp(p), PduAdo(p),
              PduLength(p)) \o PduData(p) \o <<0, 0>>

RECURSIVE FillFrame(_, _, _, _, _)
\* the closure given to send: the staged PDUs i (0-based), from i on and below
\* send_count, are added to a frame with `room` bytes left; panic when
\* ec_frame.add_command finds no room
FillFrame(pdus, i, send_count, room, acc) ==
    IF i >= Len(pdus) \/ i >= send_count
    THEN [pdus |-> acc, next |-> i, panic |-> FALSE]
    ELSE LET q == FramePdu(pdus[i + 1]) IN
         IF Len(q) > room
         THEN [pdus |-> acc, next |-> i, panic |-> TRUE]
         ELSE FillFrame(pdus, i + 1, send_count, room - Len(q), Append(acc, q))

RECURSIVE TransmitLoop(_, _, _, _)
\* `while actual_send_count < max_send_count`: the frames handed to the
\* device, in order. deny_at is the number of frames the device accepts
\* before send returns None (-1: it accepts all). hang: a frame without any
\* PDU was sent, so the loop does not advance.
TransmitLoop(pdus, actual_send_count, frames, deny_at) ==
    IF actual_send_count >= Len(pdus)
    THEN [frames |-> frames, ok |-> TRUE, panic |-> FALSE, hang |-> FALSE]
    ELSE IF Len(frames) = deny_at
    THEN [frames |-> frames, ok |-> FALSE, panic |-> FALSE, hang |-> FALSE]
    ELSE LET fit == FitPrefix(pdus, 1, 0)
             f == FillFrame(pdus, actual_send_count, actual_send_count + fit.count,
                            fit.size, <<>>)
             frame == [len |-> ETHERNET_HEADER_LENGTH + ETHERCAT_HEADER_LENGTH + fit.size,
                       pdus |-> f.pdus]
         IN IF f.panic
            THEN [frames |-> frames, ok |-> FALSE, panic |-> TRUE, hang |-> FALSE]
            ELSE IF f.next = actual_send_count
            THEN [frames |-> Append(frames, frame), ok |-> FALSE, panic |-> FALSE,
                  hang |-> TRUE]
            ELSE TransmitLoop(pdus, f.next, Append(frames, frame), deny_at)

\* transmit() over the staged bytes buffer[0..data_size]
transmit(buf, d, deny_at) ==
    TransmitLoop(EtherCATPDUs(SubSeq(buf, 1, d), d), 0, <<>>, deny_at)

(***************************************************************************)
(* The device and EtherCATInterface::receive                               *)
(***************************************************************************)
\* working counters the slaves may leave in a returned frame
ReplyWkc == {1}

\* a sent frame as the slaves return it: every PDU with working counter w
ReplyFrame(f, w) ==
    [len |-> f.len,
     pdus |-> [k \in 1..Len(f.pdus) |->
                  SubSeq(f.pdus[k], 1, Len(f.pdus[k]) - WKC_LENGTH) \o <<Lo(w), Hi(w)>>]]

RECURSIVE CopyPdus(_, _, _, _)
\* `for pdu in ec_frame.iter_dlpdu()`: each PDU is copied to
\* buffer[data_size..data_size + pdu_size]; panic when that range leaves the buffer
CopyPdus(buf, rx, pdus, k) ==
    IF k > Len(pdus)
    THEN [buffer |-> buf, rx_size |-> rx, panic |-> FALSE]
    ELSE IF rx + Len(pdus[k]) > Len(buf)
    THEN [buffer |-> buf, rx_size |-> rx, panic |-> TRUE]
    ELSE CopyPdus(SliceWrite(buf, rx, pdus[k]), rx + Len(pdus[k]), pdus, k + 1)

(***************************************************************************)
(* The units of the engine runs: trait CyclicProcess                       *)
(***************************************************************************)
\* the (Command, data) a unit emits: FPRD of the AL status register of the
\* slave at station address 0x1000 + id; the payload length depends on the unit
UnitCommand(id) == [command |-> 4, adp |-> 4096 + id, ado |-> 304]
\* the payload limit of add_command: MTU - (ETH_HDR + EC_HDR + PDU_HDR + WKC)
MtuPayloadLimit ==
    Mtu - (ETHERNET_HEADER_LENGTH + ETHERCAT_HEADER_LENGTH + ETHERCATPDU_HEADER_LENGTH
           + WKC_LENGTH)

\* the unit of the last id the caller owns asks for one payload byte more
\* than the MTU allows a PDU
LongUnitId == EngineUnitPool
\* a unit the caller owns besides asks for more payload bytes than
\* remaing_capacity() reports for the empty buffer
HugeUnitId == EngineUnitPool + 1
UnitData(id) ==
    IF id = LongUnitId THEN [i \in 1..(MtuPayloadLimit + 1) |-> id]
    ELSE IF id = HugeUnitId
    THEN [i \in 1..(buffer_size - ETHERCAT_HEADER_LENGTH - WKC_LENGTH + 1) |-> id]
    ELSE IF id = 3 THEN <<3, 3, 3>> ELSE <<id, id, id, id, id>>

\* next_command(desc, sys_time): Some((command, data)) while the unit has a
\* command to emit, else None; the unit does not change
next_command(unit) ==
    [some |-> unit.steps > 0, command |-> UnitCommand(unit.id), data |-> UnitData(unit.id)]

\* recieve_and_process(recv_data, desc, sys_time): a reply moves the unit to
\* its next command, a lost command latches its error
recieve_and_process(unit, some) ==
    IF some /\ unit.steps > 0 THEN [unit EXCEPT !.steps = unit.steps - 1]
    ELSE [unit EXCEPT !.steps = 0]

(***************************************************************************)
(* CyclicUnits::enqueue_commands                                           *)
(***************************************************************************)
\* the history of a slot whose unit has observed no call yet
NewHist == [open |-> FALSE, inflight |-> FALSE, again |-> FALSE, orphan |-> FALSE,
            broken |-> FALSE, stale |-> FALSE]

\* hist and delivered follow the slot array
\* (stale: the slot's former unit was removed while its command was staged,
\* and that PDU has not been consumed since)
HistFor(us, h) ==
    [k \in 1..Len(us) |->
        IF k <= Len(hist) /\ k # h + 1 THEN hist[k]
        ELSE [NewHist EXCEPT !.stale = k <= Len(hist) /\ (hist[k].inflight \/ hist[k].stale)]]

\* consume_commands has emptied the staging buffer: no PDU of a removed unit
\* is left in it
HistConsumed(hs, us) ==
    [k \in 1..Len(hs) |->
        IF us[k].tag = "Unit" THEN [hs[k] EXCEPT !.stale = FALSE]
        ELSE [hs[k] EXCEPT !.stale = FALSE, !.inflight = FALSE]]
DeliveredFor(us) == [k \in 1..Len(us) |-> <<>>]

\* what the unit of a slot observes: next_command was called
HistNext(hs, i, some) ==
    [hs EXCEPT ![i + 1] = [@ EXCEPT !.again = @ \/ hs[i + 1].open,
                                    !.broken = @ \/ hs[i + 1].inflight,
                                    !.open = hs[i + 1].open \/ some]]
\* its command was staged
HistStaged(hs, i) == [hs EXCEPT ![i + 1] = [@ EXCEPT !.inflight = TRUE]]
\* recieve_and_process was called
HistRecv(hs, i) ==
    [hs EXCEPT ![i + 1] = [@ EXCEPT !.orphan = @ \/ ~hs[i + 1].open,
                                    !.broken = @ \/ ~hs[i + 1].inflight,
                                    !.open = FALSE, !.inflight = FALSE]]

RECURSIVE EnqueueFrom(_, _, _, _, _, _, _)
\* `for (i, unit_enum) in self.units.iter_mut().enumerate()` from slot i on.
\* res: "Ok" (Ok(complete)), "BufferExhausted" (the `?` on add_command) or
\* "panic"
EnqueueFrom(i, us, buf, d, overflow_checks, hs, st) ==
    IF i >= Len(us)
    THEN [units |-> us, buffer |-> buf, data_size |-> d, complete |-> TRUE,
          res |-> "Ok", hist |-> hs, staged |-> st]
    ELSE IF us[i + 1].tag # "Unit" \/ us[i + 1].sent
    THEN EnqueueFrom(i + 1, us, buf, d, overflow_checks, hs, st)
    ELSE LET nc == next_command(us[i + 1].unit)
             hs1 == HistNext(hs, i, nc.some)
             cap == remaing_capacity(d, overflow_checks)
             r == add_command(buf, d, i % 256, nc.command.command, nc.command.adp,
                              nc.command.ado, nc.data)
         IN IF ~nc.some
            THEN EnqueueFrom(i + 1, us, buf, d, overflow_checks, hs1, st)
            ELSE IF cap.panic
            THEN [units |-> us, buffer |-> buf, data_size |-> d, complete |-> FALSE,
                  res |-> "panic", hist |-> hs1, staged |-> st]
            ELSE IF CapacityBelow(cap, Len(nc.data))
            THEN [units |-> us, buffer |-> buf, data_size |-> d, complete |-> FALSE,
                  res |-> "Ok", hist |-> hs1, staged |-> st]
            ELSE IF r.res # "Ok"
            THEN [units |-> us, buffer |-> buf, data_size |-> d, complete |-> FALSE,
                  res |-> r.res, hist |-> hs1, staged |-> st]
            ELSE EnqueueFrom(i + 1, [us EXCEPT ![i + 1].sent = TRUE], r.buffer,
                             r.data_size, overflow_checks, HistStaged(hs1, i),
                             Append(st, [index |-> i % 256,
                                         command |-> nc.command.command,
                                         adp |-> nc.command.adp, ado |-> nc.command.ado,
                                         data |-> nc.data]))

\* an enqueue pass that does not skip the slots whose sent flag is set
enqueue_commands_Resend(us, buf, d, overflow_checks, hs, st) ==
    EnqueueFrom(0, [k \in 1..Len(us) |-> [us[k] EXCEPT !.sent = FALSE]], buf, d,
                overflow_checks, hs, st)

enqueue_commands(us, buf, d, overflow_checks, hs, st) ==
    EnqueueFrom(0, us, buf, d, overflow_checks, hs, st)

(***************************************************************************)
(* CyclicUnits::process: the dispatch pass                                 *)
(***************************************************************************)
RECURSIVE LostRange(_, _, _)
\* `for j in lo..hi`: recieve_and_process(None) for every Occupied slot with
\* the sent flag, which is cleared. x = [units, hist, delivered]
LostRange(x, lo, hi) ==
    IF lo >= hi \/ lo >= Len(x.units)
    THEN x
    ELSE IF x.units[lo + 1].tag = "Unit" /\ x.units[lo + 1].sent
    THEN LostRange([units |-> [x.units EXCEPT
                                 ![lo + 1].unit = recieve_and_process(@, FALSE),
                                 ![lo + 1].sent = FALSE],
                    hist |-> HistRecv(x.hist, lo),
                    delivered |-> [x.delivered EXCEPT ![lo + 1] = Append(@, "None")]],
                   lo + 1, hi)
    ELSE LostRange(x, lo + 1, hi)

RECURSIVE DispatchFrom(_, _, _, _)
\* `for pdu in pdus` from the k-th PDU on, then the loop over the slots left
DispatchFrom(x, pdus, k, last_index) ==
    IF k > Len(pdus)
    THEN [x |-> LostRange(x, last_index, Len(x.units)), panic |-> FALSE]
    ELSE LET index == PduIndex(pdus[k])
             y == LostRange(x, last_index, index)
         IN IF index < Len(y.units) /\ y.units[index + 1].tag = "Unit"
            THEN IF ~y.units[index + 1].sent
                 THEN [x |-> y, panic |-> TRUE]
                 ELSE DispatchFrom(
                        [units |-> [y.units EXCEPT
                                      ![index + 1].unit = recieve_and_process(@, TRUE),
                                      ![index + 1].sent = FALSE],
                         hist |-> HistRecv(y.hist, index),
                         delivered |-> [y.delivered EXCEPT ![index + 1] = Append(@, "Some")]],
                        pdus, k + 1, index + 1)
            ELSE DispatchFrom(y, pdus, k + 1, index + 1)

\* process() after iface.poll returned Ok or ReceiveTimeout
dispatch(us, pdus, hs) ==
    DispatchFrom([units |-> us, hist |-> hs, delivered |-> DeliveredFor(us)], pdus, 1, 0)

(***************************************************************************)
(* slave.rs: AlState                                                       *)
(***************************************************************************)
AlStates ==
    {"Init", "PreOperational", "Bootstrap", "SafeOperational", "Operational",
     "InvalidOrMixed"}
\* `al_state as u8`: the discriminants of enum AlState
AlState_as_u8(s) ==
    CASE s = "Init" -> 1
      [] s = "PreOperational" -> 2
      [] s = "Bootstrap" -> 3
      [] s = "SafeOperational" -> 4
      [] s = "Operational" -> 8
      [] OTHER -> 9
\* impl From<u8> for AlState
AlState_from(v) ==
    IF v = 1 THEN "Init"
    ELSE IF v = 2 THEN "PreOperational"
    ELSE IF v = 3 THEN "Bootstrap"
    ELSE IF v = 4 THEN "SafeOperational"
    ELSE IF v = 2 THEN "PreOperational"
    ELSE IF v = 8 THEN "Operational"
    ELSE "InvalidOrMixed"

(***************************************************************************)
(* cyclic/al_state_transfer.rs: AlStateTransfer                            *)
(***************************************************************************)
PREOP_TIMEOUT_DEFAULT_MS == 3000
SAFEOP_OP_TIMEOUT_DEFAULT_MS == 10000
BACK_TO_INIT_TIMEOUT_DEFAULT_MS == 5000
BACK_TO_SAFEOP_TIMEOUT_DEFAULT_MS == 200

Raise(max, v) == IF max < v THEN v ELSE max
max_timeout_ms ==
    Raise(Raise(Raise(PREOP_TIMEOUT_DEFAULT_MS, SAFEOP_OP_TIMEOUT_DEFAULT_MS),
                BACK_TO_INIT_TIMEOUT_DEFAULT_MS),
          BACK_TO_SAFEOP_TIMEOUT_DEFAULT_MS)

\* enum State and the errors it carries (EcError<Error>); al is the AlState of
\* ResetError and OffAck
NoError == [kind |-> "", a |-> 0, b |-> 0]
AlSt(tag, s, err) == [tag |-> tag, al |-> s, err |-> err]
Plain(tag) == AlSt(tag, "", NoError)
ErrorState(kind, a, b) == AlSt("Error", "", [kind |-> kind, a |-> a, b |-> b])

\* Command: (c_type, adp, ado); ado names the register
Command(c_type, adp, ado) == [c_type |-> c_type, adp |-> adp, ado |-> ado]
Command_default == Command("NOP", 0, "")
\* Command::new_read / new_write of a station address, and the broadcast
\* commands of TargetSlave::All
ReadCommand(slave_address, ado) ==
    IF slave_address.tag = "Single" THEN Command("FPRD", slave_address.v, ado)
    ELSE Command("BRD", 0, ado)
WriteCommand(slave_address, ado) ==
    IF slave_address.tag = "Single" THEN Command("FPWR", slave_address.v, ado)
    ELSE Command("BWR", 0, ado)

\* self.buffer after fill(0), as the fields of the register views laid over it
ZeroBuffer == [state |-> 0, acknowledge |-> FALSE, owner |-> FALSE, reset_access |-> FALSE]
\* &self.buffer[..R::SIZE]
Slice(reg, buf) == [reg |-> reg, val |-> buf]
NoData == Slice("", ZeroBuffer)

AlStateTransfer_new ==
    [timer_start |-> 0, state |-> Plain("Idle"),
     slave_address |-> [tag |-> "Single", v |-> 0], target_al |-> "Init",
     command |-> Command_default, buffer |-> ZeroBuffer, current_al_state |-> "Init",
     timeout_ms |-> 0]

AlStateTransfer_start(self, slave_address, target_al_state) ==
    [self EXCEPT !.slave_address = slave_address, !.target_al = target_al_state,
                 !.state = Plain("Read"), !.buffer = ZeroBuffer,
                 !.command = Command_default]

\* a wait() that reports an error as still pending
AlStateTransfer_wait_ErrorPending(self) ==
    IF self.state.tag = "Complete"
    THEN [some |-> TRUE, ok |-> TRUE, al |-> self.current_al_state, err |-> NoError]
    ELSE [some |-> FALSE, ok |-> FALSE, al |-> "", err |-> NoError]

\* Some(Ok(al)), Some(Err(err)) or None
AlStateTransfer_wait(self) ==
    IF self.state.tag = "Complete"
    THEN [some |-> TRUE, ok |-> TRUE, al |-> self.current_al_state, err |-> NoError]
    ELSE IF self.state.tag = "Error"
    THEN [some |-> TRUE, ok |-> FALSE, al |-> "", err |-> self.state.err]
    ELSE [some |-> FALSE, ok |-> FALSE, al |-> "", err |-> NoError]

\* a timeout chosen by the target alone
TransitionTimeout_TargetOnly(current, target) ==
    IF target = "Operational" THEN SAFEOP_OP_TIMEOUT_DEFAULT_MS
    ELSE IF target \in {"PreOperational", "Bootstrap"} THEN PREOP_TIMEOUT_DEFAULT_MS
    ELSE IF target = "Init" THEN BACK_TO_INIT_TIMEOUT_DEFAULT_MS
    ELSE IF target = "SafeOperational" THEN BACK_TO_SAFEOP_TIMEOUT_DEFAULT_MS
    ELSE max_timeout_ms

\* the timeout of the transition (current, target)
TransitionTimeout(current, target) ==
    IF (current = "PreOperational" /\ target = "SafeOperational") \/ target = "Operational"
    THEN SAFEOP_OP_TIMEOUT_DEFAULT_MS
    ELSE IF target \in {"PreOperational", "Bootstrap"} THEN PREOP_TIMEOUT_DEFAULT_MS
    ELSE IF target = "Init" THEN BACK_TO_INIT_TIMEOUT_DEFAULT_MS
    ELSE IF target = "SafeOperational" THEN BACK_TO_SAFEOP_TIMEOUT_DEFAULT_MS
    ELSE max_timeout_ms

Answer(self, command, buf, reg) ==
    [some |-> TRUE, command |-> command, data |-> Slice(reg, buf),
     self |-> [self EXCEPT !.command = command, !.buffer = buf]]

\* CyclicProcess::next_command: the Option returned and the unit after the call
AlStateTransfer_next_command(self) ==
    LET tag == self.state.tag
        adr == self.slave_address
    IN
    IF tag \in {"Idle", "Error", "Complete"}
    THEN [some |-> FALSE, command |-> Command_default, data |-> NoData, self |-> self]
    ELSE IF tag \in {"Read", "Poll"}
    THEN Answer(self, ReadCommand(adr, "AlStatus"), ZeroBuffer, "AlStatus")
    ELSE IF tag = "ResetError"
    THEN Answer(self, WriteCommand(adr, "AlControl"),
                [ZeroBuffer EXCEPT !.state = AlState_as_u8(self.state.al),
                                   !.acknowledge = TRUE], "AlControl")
    ELSE IF tag = "OffAck"
    THEN Answer(self, WriteCommand(adr, "AlControl"),
                [ZeroBuffer EXCEPT !.state = AlState_as_u8(self.state.al),
                                   !.acknowledge = FALSE], "AlControl")
    ELSE IF tag = "ResetSiiOwnership"
    THEN Answer(self, WriteCommand(adr, "SiiAccess"),
                [ZeroBuffer EXCEPT !.owner = TRUE, !.reset_access = FALSE], "SiiAccess")
    ELSE LET a == Answer(self, WriteCommand(adr, "AlControl"),
                         [ZeroBuffer EXCEPT !.state = AlState_as_u8(self.target_al)],
                         "AlControl")
         IN [a EXCEPT !.self.timeout_ms =
                          TransitionTimeout(self.current_al_state, self.target_al)]

\* the ReceivedData of a reply: data is the AlStatus view of the payload
ReceivedData(command, state, change_err, al_status_code, wkc) ==
    [some |-> TRUE, command |-> command, wkc |-> wkc,
     data |-> [state |-> state, change_err |-> change_err,
               al_status_code |-> al_status_code]]
Lost == [some |-> FALSE]

\* the checks in the other order: the command check overrides the WKC check
CheckedState_CommandLast(self, recv_data) ==
    LET s1 == IF recv_data.wkc # (IF self.slave_address.tag = "Single" THEN 1
                                  ELSE self.slave_address.v)
              THEN ErrorState("UnexpectedWKC", recv_data.wkc, 0)
              ELSE self.state
    IN IF ~(recv_data.command.c_type = self.command.c_type
             /\ recv_data.command.ado = self.command.ado)
       THEN ErrorState("UnexpectedCommand", 0, 0)
       ELSE s1

\* the first part of recieve_and_process: the command and WKC checks
CheckedState(self, recv_data) ==
    LET s1 == IF ~(recv_data.command.c_type = self.command.c_type
                    /\ recv_data.command.ado = self.command.ado)
              THEN ErrorState("UnexpectedCommand", 0, 0)
              ELSE self.state
    IN IF recv_data.wkc # (IF self.slave_address.tag = "Single" THEN 1
                           ELSE self.slave_address.v)
       THEN ErrorState("UnexpectedWKC", recv_data.wkc, 0)
       ELSE s1

\* a recieve_and_process whose Read arm keeps a mixed state in ResetError
AlStateTransfer_recieve_and_process_KeepMixed(self, recv_data, time) ==
    IF ~recv_data.some
    THEN [self EXCEPT !.state = ErrorState("LostCommand", 0, 0)]
    ELSE
    LET st == CheckedState(self, recv_data)
        s0 == [self EXCEPT !.state = st]
        al_state == AlState_from(recv_data.data.state)
        s1 == [s0 EXCEPT !.current_al_state = al_state]
    IN
    IF st.tag \in {"Idle", "Error", "Complete"} THEN s0
    ELSE IF st.tag = "Read"
    THEN IF al_state = self.target_al
         THEN [s1 EXCEPT !.state = Plain("Complete")]
         ELSE IF recv_data.data.change_err
         THEN [s1 EXCEPT !.state =
                  AlSt("ResetError",
                       al_state, NoError)]
         ELSE [s1 EXCEPT !.state = Plain("ResetSiiOwnership")]
    ELSE IF st.tag = "ResetError" THEN [s0 EXCEPT !.state = AlSt("OffAck", st.al, NoError)]
    ELSE IF st.tag = "OffAck" THEN [s0 EXCEPT !.state = Plain("Read")]
    ELSE IF st.tag = "ResetSiiOwnership" THEN [s0 EXCEPT !.state = Plain("Request")]
    ELSE IF st.tag = "Request"
    THEN [s0 EXCEPT !.timer_start = time, !.state = Plain("Poll")]
    ELSE IF self.target_al = al_state
         THEN [s1 EXCEPT !.state = Plain("Complete")]
         ELSE IF recv_data.data.change_err
         THEN [s1 EXCEPT !.state =
                  AlSt("Error", al_state,
                       [kind |-> "AlStatusCode", a |-> recv_data.data.al_status_code,
                        b |-> 0])]
         ELSE IF self.timer_start < time
                 /\ self.timeout_ms * 1000 < time - self.timer_start
         THEN [s1 EXCEPT !.state = ErrorState("TimeoutMs", self.timeout_ms, 0)]
         ELSE s1

\* CyclicProcess::recieve_and_process
AlStateTransfer_recieve_and_process(self, recv_data, time) ==
    IF ~recv_data.some
    THEN [self EXCEPT !.state = ErrorState("LostCommand", 0, 0)]
    ELSE
    LET st == CheckedState(self, recv_data)
        s0 == [self EXCEPT !.state = st]
        al_state == AlState_from(recv_data.data.state)
        s1 == [s0 EXCEPT !.current_al_state = al_state]
    IN
    IF st.tag \in {"Idle", "Error", "Complete"} THEN s0
    ELSE IF st.tag = "Read"
    THEN IF al_state = self.target_al
         THEN [s1 EXCEPT !.state = Plain("Complete")]
         ELSE IF recv_data.data.change_err
         THEN [s1 EXCEPT !.state =
                  AlSt("ResetError",
                       IF al_state = "InvalidOrMixed" THEN "Init" ELSE al_state, NoError)]
         ELSE [s1 EXCEPT !.state = Plain("ResetSiiOwnership")]
    ELSE IF st.tag = "ResetError" THEN [s0 EXCEPT !.state = AlSt("OffAck", st.al, NoError)]
    ELSE IF st.tag = "OffAck" THEN [s0 EXCEPT !.state = Plain("Read")]
    ELSE IF st.tag = "ResetSiiOwnership" THEN [s0 EXCEPT !.state = Plain("Request")]
    ELSE IF st.tag = "Request"
    THEN [s0 EXCEPT !.timer_start = time, !.state = Plain("Poll")]
    ELSE IF self.target_al = al_state
         THEN [s1 EXCEPT !.state = Plain("Complete")]
         ELSE IF recv_data.data.change_err
         THEN [s1 EXCEPT !.state =
                  AlSt("Error", al_state,
                       [kind |-> "AlStatusCode", a |-> recv_data.data.al_status_code,
                        b |-> 0])]
         ELSE IF self.timer_start < time
                 /\ self.timeout_ms * 1000 < time - self.timer_start
         THEN [s1 EXCEPT !.state = ErrorState("TimeoutMs", self.timeout_ms, 0)]
         ELSE s1

(***************************************************************************)
(* NetworkDescription and the mailbox sub-units of SdoDownloader           *)
(***************************************************************************)
\* the station address of the one slave the NetworkDescription holds
KnownSlave == 4097
\* Slave::default(): mailbox_count = 0
NetworkDescription_new == [mailbox_count |-> 0]
\* desc.slave_mut(slave_address) is Some
HasSlave(slave_address) == slave_address = KnownSlave
\* Slave::increment_mb_count: 1..=7, zero skipped
increment_mb_count(count) == IF count >= 7 THEN 1 ELSE count + 1

MAILBOX_HEADER_SIZE == 6
COE_HEADER_SIZE == 2
SDO_HEADER_SIZE == 4
SDO_DOWNLOAD_NORMAL_HEADER_SIZE == 4

\* MailboxHeader::new() and its setters
MailboxHeader(address, count, mailbox_type, length, prioriry) ==
    [address |-> address, count |-> count, mailbox_type |-> mailbox_type,
     length |-> length, prioriry |-> prioriry]
MailboxHeader_new == MailboxHeader(0, 0, 0, 0, 0)
\* MailboxType::CoE
CoE == 3

\* MailboxReader and MailboxWriter: the slave and mode they were started
\* with, what wait() returns, and the mailbox the reader has read
MailboxReader_new ==
    [slave_address |-> 0, wait_full |-> FALSE, started |-> FALSE, status |-> "WouldBlock",
     buffer |-> <<>>]
MailboxReader_start(reader, slave_address, wait_full) ==
    [reader EXCEPT !.slave_address = slave_address, !.wait_full = wait_full,
                   !.started = TRUE, !.status = "WouldBlock"]
MailboxReader_next_command(reader) ==
    [some |-> TRUE,
     command |-> Command("FPRD", reader.slave_address,
                         IF reader.wait_full THEN "Sm1" ELSE "Sm1Status"),
     data |-> [mailbox |-> "read", header |-> MailboxHeader_new]]
\* recieve_and_process of the reader: what it does with the reply is the
\* outcome wait() reports afterwards
MailboxReader_recieve_and_process(reader, outcome, mailbox) ==
    [reader EXCEPT !.status = outcome,
                   !.buffer = IF outcome = "Ok" THEN mailbox ELSE @]

MailboxWriter_new ==
    [slave_address |-> 0, wait_empty |-> FALSE, started |-> FALSE, status |-> "WouldBlock",
     header |-> MailboxHeader_new]
MailboxWriter_next_command(writer) ==
    [some |-> TRUE, command |-> Command("FPWR", writer.slave_address, "Sm0"),
     data |-> [mailbox |-> "write", header |-> writer.header]]
MailboxWriter_recieve_and_process(writer, outcome) == [writer EXCEPT !.status = outcome]

(***************************************************************************)
(* cyclic/sdo_downloader.rs: SdoDownloader                                 *)
(***************************************************************************)
\* enum State: WriteDownloadRequest and ReadDownloadResponse carry is_first
SdoSt(tag, first, kind, code) == [tag |-> tag, first |-> first, kind |-> kind, code |-> code]
SdoPlain(tag) == SdoSt(tag, FALSE, "", 0)
SdoError(kind, code) == SdoSt("Error", FALSE, kind, code)

SdoDownloader_new ==
    [slave_address |-> 0, state |-> SdoPlain("Idle"), reader |-> MailboxReader_new,
     writer |-> MailboxWriter_new, mailbox_count |-> 0, mb_length |-> 0]

SdoDownloader_start(self, slave_address, data_len) ==
    [self EXCEPT !.mb_length = data_len + COE_HEADER_SIZE + SDO_HEADER_SIZE
                                   + SDO_DOWNLOAD_NORMAL_HEADER_SIZE,
                 !.slave_address = slave_address,
                 !.state = SdoPlain("CheckMailboxEmpty")]

\* nb::Result<(), Error>
SdoDownloader_wait(self) ==
    IF self.state.tag = "Complete" THEN [res |-> "Ok", kind |-> "", code |-> 0]
    ELSE IF self.state.tag = "Error"
    THEN [res |-> "Err", kind |-> self.state.kind, code |-> self.state.code]
    ELSE [res |-> "WouldBlock", kind |-> "", code |-> 0]

NoCommand == [some |-> FALSE, command |-> Command_default, data |-> [mailbox |-> "none", header |-> MailboxHeader_new]]

\* Cyclic::next_command: the Option returned, the unit and the
\* NetworkDescription after the call
SdoDownloader_next_command(self, d) ==
    LET st == self.state IN
    IF st.tag \in {"Idle", "Error", "Complete"}
    THEN [res |-> NoCommand, self |-> self, desc |-> d]
    ELSE IF st.tag = "CheckMailboxEmpty"
    THEN LET reader == MailboxReader_start(self.reader, self.slave_address, FALSE) IN
         [res |-> MailboxReader_next_command(reader),
          self |-> [self EXCEPT !.reader = reader], desc |-> d]
    ELSE IF st.tag = "WriteDownloadRequest"
    THEN IF st.first
         THEN IF HasSlave(self.slave_address)
              THEN LET count == increment_mb_count(d.mailbox_count)
                       writer == [self.writer EXCEPT
                                     !.header = MailboxHeader(0, count, CoE,
                                                              self.mb_length, 0),
                                     !.slave_address = self.slave_address,
                                     !.wait_empty = TRUE, !.started = TRUE,
                                     !.status = "WouldBlock"]
                   IN [res |-> MailboxWriter_next_command(writer),
                       self |-> [self EXCEPT !.mailbox_count = count, !.writer = writer],
                       desc |-> [d EXCEPT !.mailbox_count = count]]
              ELSE [res |-> NoCommand,
                    self |-> [self EXCEPT !.state = SdoError("NoSlave", 0)], desc |-> d]
         ELSE [res |-> MailboxWriter_next_command(self.writer), self |-> self, desc |-> d]
    ELSE LET reader == IF st.first
                       THEN MailboxReader_start(self.reader, self.slave_address, TRUE)
                       ELSE self.reader
         IN [res |-> MailboxReader_next_command(reader),
             self |-> [self EXCEPT !.reader = reader], desc |-> d]

\* SdoHeader(&buffer[offset..]).command_specifier(): bits 0-2 of the first byte
command_specifier(buf, offset) == buf[offset + 1] % 8
\* u32::from_le_bytes of the four bytes from offset on (0 where the buffer ends)
ByteAt(buf, i) == IF i + 1 <= Len(buf) THEN buf[i + 1] ELSE 0
from_le_bytes(buf, offset) ==
    ByteAt(buf, offset) + 256 * ByteAt(buf, offset + 1) + 65536 * ByteAt(buf, offset + 2)
        + 16777216 * ByteAt(buf, offset + 3)

\* the arm of recieve_and_process for a completed mailbox read: the SDO
\* header is looked for at `offset` of the reader's buffer
ParsedResponse(buf, offset) ==
    IF command_specifier(buf, offset) = 4
    THEN SdoError("AbortCode", from_le_bytes(buf, offset + SDO_HEADER_SIZE))
    ELSE IF command_specifier(buf, offset) # 3
    THEN SdoError("UnexpectedResponse", 0)
    ELSE SdoPlain("Complete")

\* a recieve_and_process that goes on to the write when the mailbox is populated
SdoDownloader_recieve_and_process_Overwrite(self, outcome, mailbox) ==
    LET st == self.state
        reader == MailboxReader_recieve_and_process(self.reader, outcome, mailbox)
        writer == MailboxWriter_recieve_and_process(self.writer, outcome)
    IN
    IF st.tag \in {"Idle", "Error", "Complete"} THEN self
    ELSE IF st.tag = "CheckMailboxEmpty"
    THEN [self EXCEPT !.reader = reader,
                      !.state = IF outcome = "Ok" THEN SdoSt("WriteDownloadRequest", TRUE, "", 0)
                                ELSE IF outcome = "MailboxEmpty"
                                THEN SdoSt("WriteDownloadRequest", TRUE, "", 0)
                                ELSE IF outcome = "WouldBlock" THEN st
                                ELSE SdoError(outcome, 0)]
    ELSE IF st.tag = "WriteDownloadRequest"
    THEN [self EXCEPT !.writer = writer,
                      !.state = IF outcome = "Ok"
                                THEN SdoSt("ReadDownloadResponse", TRUE, "", 0)
                                ELSE IF outcome = "WouldBlock"
                                THEN SdoSt("WriteDownloadRequest", FALSE, "", 0)
                                ELSE SdoError(outcome, 0)]
    ELSE [self EXCEPT !.reader = reader,
                      !.state = IF outcome = "Ok"
                                THEN ParsedResponse(reader.buffer, MAILBOX_HEADER_SIZE)
                                ELSE IF outcome = "WouldBlock"
                                THEN SdoSt("ReadDownloadResponse", FALSE, "", 0)
                                ELSE SdoError(outcome, 0)]

\* Cyclic::recieve_and_process. outcome and mailbox are what the sub-unit
\* makes of recv_data
SdoDownloader_recieve_and_process(self, outcome, mailbox) ==
    LET st == self.state
        reader == MailboxReader_recieve_and_process(self.reader, outcome, mailbox)
        writer == MailboxWriter_recieve_and_process(self.writer, outcome)
    IN
    IF st.tag \in {"Idle", "Error", "Complete"} THEN self
    ELSE IF st.tag = "CheckMailboxEmpty"
    THEN [self EXCEPT !.reader = reader,
                      !.state = IF outcome = "Ok" THEN SdoError("MailboxAlreadyExisted", 0)
                                ELSE IF outcome = "MailboxEmpty"
                                THEN SdoSt("WriteDownloadRequest", TRUE, "", 0)
                                ELSE IF outcome = "WouldBlock" THEN st
                                ELSE SdoError(outcome, 0)]
    ELSE IF st.tag = "WriteDownloadRequest"
    THEN [self EXCEPT !.writer = writer,
                      !.state = IF outcome = "Ok"
                                THEN SdoSt("ReadDownloadResponse", TRUE, "", 0)
                                ELSE IF outcome = "WouldBlock"
                                THEN SdoSt("WriteDownloadRequest", FALSE, "", 0)
                                ELSE SdoError(outcome, 0)]
    ELSE [self EXCEPT !.reader = reader,
                      !.state = IF outcome = "Ok"
                                THEN ParsedResponse(reader.buffer, MAILBOX_HEADER_SIZE)
                                ELSE IF outcome = "WouldBlock"
                                THEN SdoSt("ReadDownloadResponse", FALSE, "", 0)
                                ELSE SdoError(outcome, 0)]

\* no call made on the unit yet; start_count counts the calls of start on an
\* AlStateTransfer and is the mailbox counter at the start of a download
NoCall == [op |-> "", start_count |-> 0]

(***************************************************************************)
(* Actions                                                                 *)
(***************************************************************************)
\* no call of mailbox() has been made yet
NoMailbox == MailboxHeader_new
NoMailboxCall ==
    [pc |-> "idle", mailbox_count |-> 0, max_attempt |-> 0, data_len |-> 0,
     iter |-> 0, reads |-> 0, sends |-> 0, request |-> NoMailbox, drained |-> FALSE,
     sm0_empty |-> FALSE, received |-> NoMailbox, discarded |-> FALSE, ret |-> ""]

Init ==
    /\ units = <<>>
    /\ free_unit = 0
    /\ ret = Ret("new", TRUE, NoHandle, NoUnit, "")
    /\ pc = "idle"
    /\ buffer \in {[i \in 1..BufferSize |-> b] : b \in InitialBytes}
    /\ data_size = 0
    /\ should_recv_frames = 0
    /\ wire = <<>>
    /\ rx_size = 0
    /\ complete = TRUE
    /\ adds_ok = 0
    /\ removes_some = 0
    /\ handle_of = [u \in 1..AllocUnitPool |-> NoHandle]
    /\ staged = <<>>
    /\ sent_frames = <<>>
    /\ consumed = <<>>
    /\ arrived = {}
    /\ calls = 0
    /\ hist = <<>>
    /\ delivered = <<>>
    /\ al = AlStateTransfer_new
    /\ sdo = SdoDownloader_new
    /\ desc = NetworkDescription_new
    /\ sys_time = 0
    /\ unit_sent = FALSE
    /\ out = NoCall
    /\ mb = NoMailboxCall

\* what the caller and the test observe of an API call: the counters of the
\* calls that succeeded and the handle each unit was added under
Observe ==
    /\ adds_ok' = IF ret'.op = "add_unit" /\ ret'.ok THEN adds_ok + 1 ELSE adds_ok
    /\ removes_some' = IF ret'.op = "remove_unit" /\ ret'.ok
                       THEN removes_some + 1 ELSE removes_some

AddUnit(unit) ==
    LET r == add_unit(units, free_unit, unit) IN
    /\ pc = "idle"
    /\ unit.id \notin IdsIn(units)
    /\ units' = r.units
    /\ free_unit' = r.free_unit
    /\ ret' = r.ret
    /\ pc' = IF r.panic THEN "panic" ELSE "idle"
    /\ handle_of' = IF r.ret.ok THEN [handle_of EXCEPT ![unit.id] = r.ret.handle]
                    ELSE handle_of
    /\ hist' = IF r.ret.ok THEN HistFor(r.units, r.ret.handle) ELSE hist
    /\ delivered' = DeliveredFor(r.units)
    /\ calls' = calls + 1
    /\ UNCHANGED <<unitVars, ifaceVars, complete, staged, sent_frames, consumed, arrived>>

RemoveUnit(h) ==
    LET r == remove_unit(units, free_unit, h) IN
    /\ pc = "idle"
    /\ units' = r.units
    /\ free_unit' = r.free_unit
    /\ ret' = r.ret
    /\ pc' = pc
    /\ handle_of' = IF r.ret.ok THEN [handle_of EXCEPT ![r.ret.unit.id] = NoHandle]
                    ELSE handle_of
    /\ calls' = calls + 1
    /\ UNCHANGED <<unitVars, ifaceVars, complete, staged, sent_frames, consumed, arrived, obsVars>>

\* the caller adds the unit value of least id it still owns
LeastFreeId == CHOOSE id \in 1..AllocUnitPool :
                  /\ id \notin IdsIn(units)
                  /\ \A j \in 1..(id - 1) : j \in IdsIn(units)

AllocAdd ==
    /\ calls < MaxAllocCalls
    /\ AddUnit(NewUnit(LeastFreeId))
    /\ Observe

AllocRemove ==
    /\ calls < MaxAllocCalls
    /\ removes_some < MaxRemoves
    /\ \E h \in 0..Len(units) : RemoveUnit(h)
    /\ Observe

AllocNext == AllocAdd \/ AllocRemove

AllocSpec == Init /\ [][AllocNext]_vars

(***************************************************************************)
(* Calls on the interface                                                  *)
(***************************************************************************)
\* the arguments of the add_command calls made directly on the interface:
\* FPRD of AL status, BRD of DL status, FPWR of AL control with a payload
\* longer than the MTU allows
IfaceRequests ==
    {[index |-> 0, command |-> 4, adp |-> 4097, ado |-> 304, data |-> <<17, 18, 19, 20, 21>>],
     [index |-> 1, command |-> 7, adp |-> 0, ado |-> 272, data |-> <<34, 35, 36>>],
     [index |-> 2, command |-> 5, adp |-> 4097, ado |-> 288, data |-> <<1, 2, 3, 4, 5, 6>>]}

\* the record of an accepted add_command: staged since the last consume_command
StagedAfter(res, pdu_index, command, adp, ado, data) ==
    IF res = "Ok"
    THEN Append(staged, [index |-> pdu_index, command |-> command, adp |-> adp,
                         ado |-> ado, data |-> data])
    ELSE staged

IfaceAddCommand(c) ==
    LET r == add_command(buffer, data_size, c.index, c.command, c.adp, c.ado, c.data) IN
    /\ pc = "idle"
    /\ buffer' = r.buffer
    /\ data_size' = r.data_size
    /\ ret' = [Ret("add_command", r.res = "Ok", c.index, NoUnit, r.res)
                 EXCEPT !.len = Len(c.data)]
    /\ pc' = IF r.res = "panic" THEN "panic" ELSE "idle"
    /\ staged' = StagedAfter(r.res, c.index, c.command, c.adp, c.ado, c.data)
    /\ calls' = calls + 1
    /\ UNCHANGED <<unitVars, engineVars, should_recv_frames, wire, rx_size, adds_ok, removes_some,
                   handle_of, sent_frames, consumed, arrived, obsVars>>

IfaceConsume ==
    /\ pc = "idle"
    /\ consumed' = consume_command(buffer, data_size)
    /\ data_size' = 0
    /\ ret' = Ret("consume_command", TRUE, NoHandle, NoUnit, "")
    /\ staged' = <<>>
    /\ calls' = calls + 1
    /\ UNCHANGED <<unitVars, engineVars, buffer, should_recv_frames, wire, rx_size, pc, adds_ok,
                   removes_some, handle_of, sent_frames, arrived, obsVars>>

\* the end of receive(): `assert_eq!(data_size, self.data_size)`, then RxRes::Ok
ReceiveExit(rx, d) ==
    IF rx = d THEN [pc |-> "polled", ret |-> Ret("interface.poll", TRUE, NoHandle, NoUnit, "")]
    ELSE [pc |-> "panic", ret |-> Ret("interface.poll", FALSE, NoHandle, NoUnit, "assert_eq")]

\* interface.poll up to its first recv: transmit(), then timer.start
InterfaceTransmit(buf, d, deny_at) ==
    LET t == transmit(buf, d, deny_at)
        exit == ReceiveExit(0, d)
    IN
    /\ should_recv_frames + Len(t.frames) <= MaxInflight
    /\ Len(wire) + Len(t.frames) <= MaxInflight
    /\ wire' = wire \o t.frames
    /\ should_recv_frames' = should_recv_frames + Len(t.frames)
    /\ sent_frames' = t.frames
    /\ rx_size' = 0
    /\ arrived' = {}
    /\ IF t.panic
       THEN pc' = "panic" /\ ret' = Ret("interface.poll", FALSE, NoHandle, NoUnit, "panic")
       ELSE IF t.hang
       THEN pc' = "hang" /\ ret' = Ret("interface.poll", FALSE, NoHandle, NoUnit, "hang")
       ELSE IF ~t.ok
       THEN /\ pc' = "polled"
            /\ ret' = Ret("interface.poll", FALSE, NoHandle, NoUnit, "DeviceErrorTx")
       ELSE IF should_recv_frames' > 0
       THEN pc' = "receive" /\ ret' = Ret("interface.poll", FALSE, NoHandle, NoUnit, "")
       ELSE pc' = exit.pc /\ ret' = exit.ret

IfacePoll ==
    /\ pc = "idle"
    /\ \E deny_at \in {-1, 0, 1} : InterfaceTransmit(buffer, data_size, deny_at)
    /\ calls' = calls + 1
    /\ UNCHANGED <<unitVars, engineVars, buffer, data_size, adds_ok, removes_some, handle_of,
                   staged, consumed, obsVars>>

\* one turn of `while *should_recv_frames > 0`: recv, then timer.wait().
\* ev: what recv does: "none" (it returns None), "foreign" (a frame from the
\* master's own MAC or of another EtherType), "frame" (the oldest frame in
\* flight comes back, with working counter w).
ReceiveStep(ev, w, timer) ==
    LET f == ReplyFrame(Head(wire), w)
        cp == IF ev = "frame" THEN CopyPdus(buffer, rx_size, f.pdus, 1)
              ELSE [buffer |-> buffer, rx_size |-> rx_size, panic |-> FALSE]
        left == IF ev = "frame" THEN should_recv_frames - 1 ELSE should_recv_frames
        exit == ReceiveExit(cp.rx_size, data_size)
    IN
    /\ pc = "receive"
    /\ ev = "frame" => wire # <<>>
    /\ IF ev = "none"
       THEN /\ pc' = "polled"
            /\ ret' = Ret("interface.poll", FALSE, NoHandle, NoUnit, "DeviceErrorRx")
            /\ UNCHANGED <<buffer, rx_size, should_recv_frames, wire, arrived>>
       ELSE IF cp.panic
       THEN /\ pc' = "panic"
            /\ ret' = Ret("interface.poll", FALSE, NoHandle, NoUnit, "panic")
            /\ UNCHANGED <<buffer, rx_size, should_recv_frames, wire, arrived>>
       ELSE /\ buffer' = cp.buffer
            /\ rx_size' = cp.rx_size
            /\ should_recv_frames' = left
            /\ wire' = IF ev = "frame" THEN Tail(wire) ELSE wire
            /\ arrived' = IF ev = "frame"
                          THEN arrived \cup {PduIndex(f.pdus[k]) : k \in 1..Len(f.pdus)}
                          ELSE arrived
            /\ IF timer = "Ready"
               THEN /\ pc' = "polled"
                    /\ ret' = Ret("interface.poll", FALSE, NoHandle, NoUnit, "ReceiveTimeout")
               ELSE IF left > 0
               THEN pc' = "receive" /\ ret' = ret
               ELSE pc' = exit.pc /\ ret' = exit.ret
    /\ UNCHANGED <<unitVars, engineVars, data_size, adds_ok, removes_some, handle_of, staged,
                   sent_frames, consumed, calls, obsVars>>

Receive ==
    \E ev \in {"none", "foreign", "frame"}, w \in ReplyWkc, timer \in {"WouldBlock", "Ready"} :
        ReceiveStep(ev, w, timer)

\* the device loses the oldest frame in flight
LoseFrame ==
    /\ pc = "receive"
    /\ wire # <<>>
    /\ wire' = Tail(wire)
    /\ UNCHANGED <<unitVars, engineVars, buffer, data_size, should_recv_frames, rx_size, ret, pc,
                   histVars, consumed, arrived, calls, obsVars>>

\* interface.poll returns to the caller of the interface
IfacePollReturn ==
    /\ pc = "polled"
    /\ pc' = "idle"
    /\ UNCHANGED <<unitVars, engineVars, ifaceVars, ret, histVars, consumed, arrived, calls, obsVars>>

IfaceAdd == \E c \in IfaceRequests : IfaceAddCommand(c)

CodecAdd == calls < MaxCodecCalls /\ IfaceAdd
CodecConsume == calls < MaxCodecCalls /\ IfaceConsume
CodecNext == CodecAdd \/ CodecConsume
CodecSpec == Init /\ [][CodecNext]_vars

DirectAdd == calls < MaxIfaceCalls /\ IfaceAdd
DirectConsume == calls < MaxIfaceCalls /\ IfaceConsume
DirectPoll == calls < MaxIfaceCalls /\ IfacePoll
IfaceNext ==
    \/ DirectAdd
    \/ DirectConsume
    \/ DirectPoll
    \/ Receive
    \/ LoseFrame
    \/ IfacePollReturn
IfaceSpec == Init /\ [][IfaceNext]_vars

\* add_command calls with one payload byte (three of them fit the staging
\* buffer, two of them one frame) and one with five
ShortRequests ==
    {[index |-> i, command |-> 4, adp |-> 4097 + i, ado |-> 304, data |-> <<65 + i>>] :
        i \in 0..2}
    \cup {[index |-> 3, command |-> 5, adp |-> 4097, ado |-> 288,
           data |-> <<17, 18, 19, 20, 21>>]}

TransmitAdd == calls < MaxTransmitCalls /\ \E c \in ShortRequests : IfaceAddCommand(c)
TransmitConsume == calls < MaxTransmitCalls /\ IfaceConsume
TransmitPoll == calls < MaxTransmitCalls /\ IfacePoll
TransmitNext ==
    \/ TransmitAdd
    \/ TransmitConsume
    \/ TransmitPoll
    \/ Receive
    \/ LoseFrame
    \/ IfacePollReturn
TransmitSpec == Init /\ [][TransmitNext]_vars

(***************************************************************************)
(* Calls on the engine                                                     *)
(***************************************************************************)
\* one turn of the loop of poll up to the first recv of iface.poll:
\* enqueue_commands, then process as far as transmit
EnginePassWith(overflow_checks, deny_at) ==
        LET e == enqueue_commands(units, buffer, data_size, overflow_checks, hist, staged) IN
        /\ units' = e.units
        /\ hist' = e.hist
        /\ staged' = e.staged
        /\ buffer' = e.buffer
        /\ data_size' = e.data_size
        /\ complete' = e.complete
        /\ IF e.res = "Ok"
           THEN InterfaceTransmit(e.buffer, e.data_size, deny_at)
           ELSE /\ pc' = IF e.res = "panic" THEN "panic" ELSE "idle"
                /\ ret' = Ret("poll", FALSE, NoHandle, NoUnit, e.res)
                /\ UNCHANGED <<should_recv_frames, wire, rx_size, sent_frames, arrived>>
        /\ UNCHANGED <<unitVars, free_unit, adds_ok, removes_some, handle_of, consumed, delivered>>

\* the build checks overflow or not, and the device denies the TX token of
\* the deny_at-th frame of the pass or of none (-1)
EnginePass ==
    \E overflow_checks \in BOOLEAN, deny_at \in {-1, 0, 1} :
        EnginePassWith(overflow_checks, deny_at)

\* poll(desc, sys_time, recv_timeout) is called
Poll ==
    /\ pc = "idle"
    /\ calls' = calls + 1
    /\ EnginePass

\* the loop of poll turns again after an incomplete enqueue pass
PollAgain ==
    /\ pc = "pass"
    /\ calls' = calls
    /\ EnginePass

\* mutant: only the denied TX token ends the pass
DeviceErrors_TxOnly == {"DeviceErrorTx"}

DeviceErrors == {"DeviceErrorTx", "DeviceErrorRx"}

\* process() after iface.poll has returned: a device error is returned to
\* the caller of poll; otherwise the dispatch pass runs, and poll returns Ok
\* or turns its loop again
Dispatch ==
    LET r == dispatch(units, consume_command(buffer, data_size), hist) IN
    /\ pc = "polled"
    /\ IF ret.err \in DeviceErrors
       THEN /\ pc' = "idle"
            /\ ret' = Ret("poll", FALSE, NoHandle, NoUnit, ret.err)
            /\ UNCHANGED <<units, data_size, hist, delivered, consumed, staged>>
       ELSE /\ consumed' = consume_command(buffer, data_size)
            /\ data_size' = 0
            /\ staged' = <<>>
            /\ units' = r.x.units
            /\ hist' = IF r.panic THEN r.x.hist ELSE HistConsumed(r.x.hist, r.x.units)
            /\ delivered' = r.x.delivered
            /\ pc' = IF r.panic THEN "panic" ELSE IF complete THEN "idle" ELSE "pass"
            /\ ret' = Ret("poll", ~r.panic, NoHandle, NoUnit, IF r.panic THEN "assert" ELSE "")
    /\ UNCHANGED <<unitVars, free_unit, complete, buffer, should_recv_frames, wire, rx_size,
                   adds_ok, removes_some, handle_of, sent_frames, arrived, calls>>

\* get_unit(handle) and the unit's start: the unit has `steps` commands to emit
StartUnit(h, steps) ==
    /\ pc = "idle"
    /\ get_unit(units, h) # NoUnit
    /\ units' = [units EXCEPT ![h + 1].unit = Unit(get_unit(units, h).id, steps)]
    /\ ret' = Ret("start", TRUE, h, NoUnit, "")
    /\ calls' = calls + 1
    /\ UNCHANGED <<unitVars, free_unit, complete, ifaceVars, pc, histVars, consumed, arrived, obsVars>>

EngineAdd ==
    /\ calls < MaxEngineCalls
    /\ Len(units) < MaxSlots \/ free_unit < Len(units)
    /\ \E id \in 1..EngineUnitPool, steps \in {0, MaxSteps} :
          /\ \/ id = LongUnitId /\ steps = MaxSteps
             \/ id # LongUnitId /\ \A j \in 1..(id - 1) : j \in IdsIn(units)
          /\ AddUnit(Unit(id, steps))
    /\ Observe
EngineRemove ==
    /\ calls < MaxEngineCalls
    /\ \E h \in 0..Len(units) : RemoveUnit(h)
    /\ Observe
EngineStart ==
    /\ calls < MaxEngineCalls
    /\ \E h \in 0..(Len(units) - 1) : StartUnit(h, MaxSteps)
EnginePoll == calls < MaxEngineCalls /\ Poll

Next ==
    \/ EngineAdd
    \/ EngineRemove
    \/ EngineStart
    \/ EnginePoll
    \/ PollAgain
    \/ Receive
    \/ LoseFrame
    \/ Dispatch

(***************************************************************************)
(* The engine on a device that answers every frame in time                 *)
(***************************************************************************)
\* the caller adds started units: the ordinary ones in the order of their
\* ids, or the one with the huge payload
ReliableAdd ==
    /\ calls < MaxReliableCalls
    /\ Len(units) < MaxSlots
    /\ \E id \in (1..(EngineUnitPool - 1)) \cup {HugeUnitId}, steps \in {1, MaxSteps} :
          /\ \/ id = HugeUnitId /\ steps = 1
             \/ id # HugeUnitId /\ \A j \in 1..(id - 1) : j \in IdsIn(units)
          /\ AddUnit(Unit(id, steps))
    /\ Observe

\* poll is called; no TX token is denied
ReliablePoll ==
    /\ calls < MaxReliableCalls
    /\ pc = "idle"
    /\ calls' = calls + 1
    /\ \E overflow_checks \in BOOLEAN : EnginePassWith(overflow_checks, -1)

ReliablePollAgain ==
    /\ pc = "pass"
    /\ calls' = calls
    /\ \E overflow_checks \in BOOLEAN : EnginePassWith(overflow_checks, -1)

\* recv hands over the oldest frame in flight, answered, before the timer
\* expires
ReliableReceive == ReceiveStep("frame", 1, "WouldBlock")

ReliableNext ==
    \/ ReliableAdd
    \/ ReliablePoll
    \/ ReliablePollAgain
    \/ ReliableReceive
    \/ Dispatch

\* the steps inside a call to poll: in every state at most one of them can
\* be taken
PollStep ==
    \/ ReliablePollAgain
    \/ ReliableReceive
    \/ Dispatch

\* a call to poll that can take a step takes it
ReliableSpec ==
    /\ Init
    /\ [][ReliableNext]_vars
    /\ WF_vars(PollStep)

(***************************************************************************)
(* A unit in its slot: the calls the engine and its owner make on it       *)
(***************************************************************************)
apiVars == <<units, free_unit, buffer, data_size, should_recv_frames, wire, rx_size,
             complete, ret, pc, adds_ok, removes_some, handle_of, staged, sent_frames,
             consumed, arrived, calls, hist, delivered>>
coreVars == <<apiVars, mb>>

\* the instants (ns) poll is called at
Instants == {0, 1, 200001, 200000001}

\* the owner: TargetSlave::Single(station address) or All(num_slaves)
TargetSlaves == {[tag |-> "Single", v |-> KnownSlave], [tag |-> "All", v |-> 2]}

\* the replies the engine may hand to an AlStateTransfer: none, a PDU with
\* the command emitted, any WKC and an AL status (mixed, Init, PreOp or
\* SafeOp, with or without the error flag), or a PDU with another command
AlReplies(self) ==
    {Lost} \cup
    {ReceivedData(self.command, state, change_err, 17, wkc) :
        state \in {0, 1, 2, 4}, change_err \in BOOLEAN, wkc \in {0, 1, 2}} \cup
    {ReceivedData(c, 2, FALSE, 17, wkc) :
        c \in {[self.command EXCEPT !.c_type = "LRW"],
               [self.command EXCEPT !.ado = "DlStatus"]},
        wkc \in {0, 1, 2}}

\* the owner calls start on a unit that is idle or has come to its end
AlStart ==
    /\ ~unit_sent
    /\ al.state.tag \in {"Idle", "Error", "Complete"}
    /\ out.start_count < MaxAlStarts
    /\ \E slave_address \in TargetSlaves, target \in AlStates :
          al' = AlStateTransfer_start(al, slave_address, target)
    /\ out' = [op |-> "start", start_count |-> out.start_count + 1]
    /\ UNCHANGED <<coreVars, sdo, desc, sys_time, unit_sent>>

\* enqueue_commands: next_command is called on a unit whose sent flag is
\* clear; its command is staged and the flag set, or (no room) it is deferred
AlNextCommand ==
    /\ ~unit_sent
    /\ LET r == AlStateTransfer_next_command(al) IN
          /\ al' = r.self
          /\ out' = [op |-> "next_command", start_count |-> out.start_count,
                     some |-> r.some,
                     command |-> r.command, data |-> r.data]
          /\ \E stage \in BOOLEAN : unit_sent' = (r.some /\ stage)
    /\ UNCHANGED <<coreVars, sdo, desc, sys_time>>

\* process: the dispatch pass clears the sent flag and calls
\* recieve_and_process with the reply or None, at the sys_time of the poll
\* (the time moves on between the polls of Request and Poll, where it is
\* looked at)
AlReceive ==
    /\ unit_sent
    /\ \E recv_data \in AlReplies(al), time \in Instants :
          /\ time >= sys_time
          /\ al.state.tag \notin {"Request", "Poll"} => time = sys_time
          /\ al' = AlStateTransfer_recieve_and_process(al, recv_data, time)
          /\ sys_time' = time
          /\ out' = [op |-> "recieve_and_process", start_count |-> out.start_count,
                     recv_data |-> recv_data]
    /\ unit_sent' = FALSE
    /\ UNCHANGED <<coreVars, sdo, desc>>

AlNext ==
    \/ AlStart
    \/ AlNextCommand
    \/ AlReceive

AlSpec == Init /\ [][AlNext]_vars

\* the engine at work on a transfer that is started once: every command
\* emitted is staged in the end, every staged command gets its reply or its
\* lost notification, and sys_time moves on, so that the polls of state
\* Poll come to lie after the latest instant a timeout can end at. The reply
\* to the Request is processed before that instant.
LastInstant == CHOOSE t \in Instants : \A u \in Instants : u <= t
AlLiveStart == out.start_count = 0 /\ AlStart
AlStage == AlNextCommand /\ unit_sent'
AlDispatch == AlReceive /\ (al.state.tag = "Request" => sys_time' < LastInstant)
AlLateDispatch == AlDispatch /\ sys_time' = LastInstant
AlLiveNext ==
    \/ AlLiveStart
    \/ AlNextCommand
    \/ AlDispatch

AlLiveSpec ==
    /\ Init
    /\ [][AlLiveNext]_vars
    /\ WF_vars(AlStage)
    /\ WF_vars(AlDispatch)
    /\ SF_vars(AlLateDispatch)

\* a slave address the NetworkDescription has no record of
UnknownSlave == 4098
\* the mailbox a completed read leaves in the reader's buffer: mailbox header
\* (length 10, address 0, CoE, count 1), CoE header (number, then service =
\* SDO Res), SDO header (command byte, index 0x1234, sub-index 2) and four
\* more bytes
ResponseMailbox(coe_number, sdo_command) ==
    <<10, 0, 0, 0, 0, 19, coe_number, 48, sdo_command, 52, 18, 2, 5, 3, 0, 6>>
Mailboxes == {ResponseMailbox(n, c) : n \in {0, 3}, c \in {1, 3, 4}}
\* what the sub-unit at work reports after the callback
Outcomes(self) ==
    IF self.state.tag = "WriteDownloadRequest" THEN {"Ok", "WouldBlock", "Mailbox"}
    ELSE {"Ok", "WouldBlock", "MailboxEmpty", "Mailbox"}

\* the owner starts a download of 4 bytes on a unit with no command under way
SdoStart ==
    /\ ~unit_sent
    /\ \E slave_address \in {KnownSlave, UnknownSlave} :
          sdo' = SdoDownloader_start(sdo, slave_address, 4)
    /\ out' = [op |-> "start", start_count |-> desc.mailbox_count]
    /\ UNCHANGED <<coreVars, al, desc, sys_time, unit_sent>>

SdoNextCommand ==
    /\ ~unit_sent
    /\ LET r == SdoDownloader_next_command(sdo, desc) IN
          /\ sdo' = r.self
          /\ desc' = r.desc
          /\ out' = [op |-> "next_command", start_count |-> out.start_count,
                     some |-> r.res.some, command |-> r.res.command,
                     data |-> r.res.data]
          /\ \E stage \in BOOLEAN : unit_sent' = (r.res.some /\ stage)
    /\ UNCHANGED <<coreVars, al, sys_time>>

SdoReceive ==
    /\ unit_sent
    /\ \E outcome \in Outcomes(sdo), mailbox \in Mailboxes :
          /\ sdo' = SdoDownloader_recieve_and_process(sdo, outcome, mailbox)
          /\ out' = [op |-> "recieve_and_process", start_count |-> out.start_count,
                     outcome |-> outcome, mailbox |-> mailbox]
    /\ unit_sent' = FALSE
    /\ UNCHANGED <<coreVars, al, desc, sys_time>>

SdoNext ==
    \/ SdoStart
    \/ SdoNextCommand
    \/ SdoReceive

SdoSpec == Init /\ [][SdoNext]_vars

\* one of the two units in a slot of the engine, the other left as constructed
UnitNext ==
    \/ sdo = SdoDownloader_new /\ AlNext
    \/ al = AlStateTransfer_new /\ SdoNext

UnitSpec == Init /\ [][UnitNext]_vars

(***************************************************************************)
(* The blocking mailbox exchange (mailbox.rs)                              *)
(***************************************************************************)
MaxAttempt == 2
MAILBOX_DATAGRAM_LENGTH == 512
MAILBOX_HEADER_LENGTH == MAILBOX_HEADER_SIZE
\* MailboxType::Error
MailboxType_Error == 0

\* what a read of the two bytes at 0x0805 (SM0) or 0x080D (SM1) gives:
\* the error of send_ec_packet / receive_packet / check_wkc, or data[0]
\* (status, bit 3 = mailbox full) and data[1] (bit 0 = enabled)
SmReads ==
    {[err |-> "", data |-> <<d0, d1>>] : d0 \in {0, 8, 12}, d1 \in {0, 1}}
    \cup {[err |-> "Device", data |-> <<0, 0>>]}

is_sm0_mailbox_empty(r) ==
    IF r.err # "" THEN [err |-> r.err, value |-> FALSE]
    ELSE IF r.data[2] % 2 = 0 THEN [err |-> "MailboxDisable", value |-> FALSE]
    ELSE [err |-> "", value |-> ((r.data[1] \div 8) % 2 = 0)]

is_sm1_mailbox_full(r) ==
    IF r.err # "" THEN [err |-> r.err, value |-> FALSE]
    ELSE IF r.data[2] % 2 = 0 THEN [err |-> "MailboxDisable", value |-> FALSE]
    ELSE [err |-> "", value |-> ((r.data[1] \div 8) % 2 # 0)]

\* one turn of the while loop of wait_sm0_mailbox_empty on the status read
\* r: done with Ok(()) or Err(ret), or iter + 1 and another read
wait_sm0_mailbox_empty(iter, max_attempt, r) ==
    LET e == is_sm0_mailbox_empty(r) IN
    IF e.err # "" THEN [done |-> TRUE, ret |-> e.err, iter |-> iter]
    ELSE IF e.value THEN [done |-> TRUE, ret |-> "", iter |-> iter]
    ELSE IF iter >= max_attempt THEN [done |-> TRUE, ret |-> "MailboxTimeout", iter |-> iter]
    ELSE [done |-> FALSE, ret |-> "", iter |-> iter + 1]

wait_sm1_mailbox_full(iter, max_attempt, r) ==
    LET e == is_sm1_mailbox_full(r) IN
    IF e.err # "" THEN [done |-> TRUE, ret |-> e.err, iter |-> iter]
    ELSE IF e.value THEN [done |-> TRUE, ret |-> "", iter |-> iter]
    ELSE IF iter >= max_attempt THEN [done |-> TRUE, ret |-> "MailboxTimeout", iter |-> iter]
    ELSE [done |-> FALSE, ret |-> "", iter |-> iter + 1]

\* send_mailbox: tx is the error of add_apwr / send_ec_packet, rx that of
\* receive_packet_with_wkc_check; sent says whether the datagram went out
send_mailbox(station_addr, mailbox_type, data_len, mailbox_count, tx, rx) ==
    IF mailbox_count \notin 1..7
    THEN [ret |-> "panic", sent |-> FALSE, header |-> NoMailbox]
    ELSE IF data_len > MAILBOX_DATAGRAM_LENGTH - MAILBOX_HEADER_LENGTH
    THEN [ret |-> "MaxMailboxLength", sent |-> FALSE, header |-> NoMailbox]
    ELSE IF tx # "" THEN [ret |-> tx, sent |-> FALSE, header |-> NoMailbox]
    ELSE [ret |-> rx, sent |-> TRUE,
          header |-> MailboxHeader(station_addr, mailbox_count, mailbox_type, data_len, 0)]

\* receive_mailbox: the error of the read of SM1, or the mailbox read
ReceivedMailboxes ==
    {[err |-> "", mailbox |-> MailboxHeader(0, c, t, 10, 0)] : c \in {0, 1, 2, 7}, t \in {MailboxType_Error, CoE}}
    \cup {[err |-> "Device", mailbox |-> NoMailbox]}

\* the body of the loop of mailbox() on a received mailbox
mailbox_response_AnyCounter(received, mailbox_count) ==
    IF received.mailbox_type = MailboxType_Error THEN "MailboxError"
    ELSE "Ok"

mailbox_response(received, mailbox_count) ==
    IF received.mailbox_type = MailboxType_Error THEN "MailboxError"
    ELSE IF received.count = mailbox_count THEN "Ok"
    ELSE "continue"

MailboxFrame == UNCHANGED <<apiVars, al, sdo, desc, sys_time, unit_sent, out>>
MailboxReturn(ret_value) == [mb EXCEPT !.pc = "returned", !.ret = ret_value]

\* a caller invokes mailbox()
MailboxCall ==
    /\ mb.pc \in {"idle", "returned"}
    /\ \E mailbox_count \in {0, 1, 2, 7}, max_attempt \in 0..MaxAttempt, data_len \in {10, 506, 507} :
          mb' = [NoMailboxCall EXCEPT !.pc = "drain", !.mailbox_count = mailbox_count,
                                      !.max_attempt = max_attempt, !.data_len = data_len]
    /\ MailboxFrame

\* while is_sm1_mailbox_full(..)? {
MailboxDrainCheck ==
    /\ mb.pc = "drain"
    /\ \E r \in SmReads :
          LET full == is_sm1_mailbox_full(r) IN
          mb' = IF full.err # "" THEN MailboxReturn(full.err)
                ELSE IF full.value THEN [mb EXCEPT !.pc = "drain_receive"]
                ELSE [mb EXCEPT !.pc = "wait_sm0", !.drained = TRUE, !.iter = 0, !.reads = 0]
    /\ MailboxFrame

\*     receive_mailbox(..)?; }
MailboxDrainReceive ==
    /\ mb.pc = "drain_receive"
    /\ \E m \in ReceivedMailboxes :
          mb' = IF m.err # "" THEN MailboxReturn(m.err) ELSE [mb EXCEPT !.pc = "drain"]
    /\ MailboxFrame

\* wait_sm0_mailbox_empty(.., mailbox_timeout_millis)?: one status read
MailboxWaitSm0 ==
    /\ mb.pc = "wait_sm0"
    /\ mb.reads <= MaxAttempt + 1
    /\ \E r \in SmReads :
          LET w == wait_sm0_mailbox_empty(mb.iter, mb.max_attempt, r) IN
          mb' = IF w.done /\ w.ret # "" THEN [MailboxReturn(w.ret) EXCEPT !.reads = mb.reads + 1]
                ELSE IF w.done
                THEN [mb EXCEPT !.pc = "send", !.sm0_empty = TRUE, !.reads = mb.reads + 1]
                ELSE [mb EXCEPT !.iter = w.iter, !.reads = mb.reads + 1]
    /\ MailboxFrame

\* send_mailbox(..)?
MailboxSend ==
    /\ mb.pc = "send"
    /\ \E tx \in {"", "Device"}, rx \in {"", "Device"} :
          LET r == send_mailbox(KnownSlave, CoE, mb.data_len, mb.mailbox_count, tx, rx)
              sends == IF r.sent THEN mb.sends + 1 ELSE mb.sends IN
          mb' = IF r.ret # ""
                THEN [MailboxReturn(r.ret) EXCEPT !.sends = sends, !.request = r.header]
                ELSE [mb EXCEPT !.pc = "wait_sm1", !.sends = sends, !.request = r.header,
                                !.iter = 0, !.reads = 0]
    /\ MailboxFrame

\* loop { wait_sm1_mailbox_full(.., mailbox_timeout_millis)?: one status read
MailboxWaitSm1 ==
    /\ mb.pc = "wait_sm1"
    /\ mb.reads <= MaxAttempt + 1
    /\ \E r \in SmReads :
          LET w == wait_sm1_mailbox_full(mb.iter, mb.max_attempt, r) IN
          mb' = IF w.done /\ w.ret # "" THEN [MailboxReturn(w.ret) EXCEPT !.reads = mb.reads + 1]
                ELSE IF w.done THEN [mb EXCEPT !.pc = "receive", !.reads = mb.reads + 1]
                ELSE [mb EXCEPT !.iter = w.iter, !.reads = mb.reads + 1]
    /\ MailboxFrame

\*     receive_mailbox(..)?; the type and the counter of what was read; }
MailboxReceive ==
    /\ mb.pc = "receive"
    /\ \E m \in ReceivedMailboxes :
          LET r == mailbox_response(m.mailbox, mb.mailbox_count) IN
          mb' = IF m.err # "" THEN MailboxReturn(m.err)
                ELSE IF r = "continue"
                THEN [mb EXCEPT !.pc = "wait_sm1", !.received = m.mailbox, !.discarded = TRUE,
                                !.iter = 0, !.reads = 0]
                ELSE [MailboxReturn(r) EXCEPT !.received = m.mailbox]
    /\ MailboxFrame

MailboxNext ==
    \/ MailboxCall
    \/ MailboxDrainCheck
    \/ MailboxDrainReceive
    \/ MailboxWaitSm0
    \/ MailboxSend
    \/ MailboxWaitSm1
    \/ MailboxReceive

MailboxSpec == Init /\ [][MailboxNext]_vars

(***************************************************************************)
(* Engine claims                                                           *)
(***************************************************************************)
\* the dispatch pass of process() has run and did not panic
Dispatched == pc = "polled" /\ pc' \in {"idle", "pass"} /\ ret'.op = "poll" /\ ret'.ok

\* C1: when the dispatch pass of a poll is over, every slot whose sent flag
\* was set at transmit time has received exactly one recieve_and_process,
\* Some if a PDU with its index was received and None otherwise, and every
\* other slot has received none.
C1_DispatchCoverage ==
    [][Dispatched =>
         \A k \in 1..Len(units) :
            delivered'[k] = IF units[k].tag = "Unit" /\ units[k].sent
                            THEN IF (k - 1) \in arrived THEN <<"Some">> ELSE <<"None">>
                            ELSE <<>>]_vars

\* C2: no call of the engine panics: neither the assertion of the dispatch
\* pass nor any other panic in poll, add_unit or remove_unit fires.
C2_NoPanic == pc # "panic"

\* C3 as stated: for every unit in the engine, next_command is never called
\* again while a command it returned is unanswered, and recieve_and_process
\* is never called without such a command.
C3_StrictAlternation ==
    \A k \in 1..Len(hist) : ~hist[k].again /\ ~hist[k].orphan

\* C3 amended: for every unit in the engine, once a command it returned is
\* staged, next_command is not called on it again before its one
\* recieve_and_process, and recieve_and_process is never called on a unit
\* without a staged command.
C3_StagedAlternation ==
    \A k \in 1..Len(hist) : ~hist[k].broken

\* a unit whose command was deferred, then staged, and then answered
C3_Witness ==
    /\ pc = "idle"
    /\ ret.op = "poll" /\ ret.ok
    /\ \E k \in 1..Len(hist) :
          /\ hist[k].again /\ ~hist[k].open /\ ~hist[k].inflight
          /\ delivered[k] = <<"Some">>

\* C9: the handle add_unit returned for a unit designates the slot that
\* holds that unit for as long as the unit has not been removed (so no two
\* units in the engine share a handle).
C9_HandleStable ==
    \A id \in 1..AllocUnitPool :
        handle_of[id] # NoHandle => get_unit(units, handle_of[id]).id = id

\* unit 1 still answers to handle 0 after unit 2 was added and removed
\* and a poll delivered the reply to its command
C9_Witness ==
    /\ pc = "idle"
    /\ ret.op = "poll" /\ ret.ok
    /\ adds_ok = 2 /\ removes_some = 1
    /\ handle_of[1] = 0 /\ handle_of[2] = NoHandle
    /\ get_unit(units, 0).id = 1
    /\ delivered[1] = <<"Some">>

(***************************************************************************)
(* Interface claims                                                        *)
(***************************************************************************)
\* C4: whenever the requested payload length is at most remaining_capacity()
\* and within the MTU limit, the following add_command succeeds and writes
\* the PDU header, payload and WKC trailer inside the staging buffer.
C4_CapacityGuarantee ==
    [][(/\ calls' = calls + 1
        /\ ret'.op = "add_command"
        /\ ~remaing_capacity(data_size, FALSE).wrapped
        /\ ret'.len <= remaing_capacity(data_size, FALSE).value
        /\ ret'.len <= MtuPayloadLimit)
       => (ret'.ok /\ pc' # "panic" /\ data_size' <= buffer_size)]_vars

RECURSIVE SumLen(_, _)
SumLen(pdus, k) == IF k = 0 THEN 0 ELSE Len(pdus[k]) + SumLen(pdus, k - 1)

\* C5: no Ethernet frame handed to the device is longer than
\* max_transmission_unit() bytes, headers included, and every PDU lies whole
\* inside one frame.
C5_MtuRespect ==
    \A k \in 1..Len(sent_frames) :
        /\ sent_frames[k].len <= Mtu
        /\ ETHERNET_HEADER_LENGTH + ETHERCAT_HEADER_LENGTH
           + SumLen(sent_frames[k].pdus, Len(sent_frames[k].pdus)) <= sent_frames[k].len

\* C6: for add_command calls that each fit, starting from an empty staging
\* buffer, consume_commands yields exactly those PDUs, in insertion order,
\* each with the index, command (type, adp, ado) and payload it was added
\* with, and leaves data_size = 0.
C6_RoundTrip ==
    [][(calls' = calls + 1 /\ ret'.op = "consume_command")
       => /\ data_size' = 0
          /\ Len(consumed') = Len(staged)
          /\ \A k \in 1..Len(staged) : PduFields(consumed'[k]) = staged[k]]_vars

\* C6 witness: two PDUs with different indices, commands and payload lengths
\* were staged and consume_command has handed out their two views
C6_Witness ==
    /\ ret.op = "consume_command"
    /\ Len(consumed) = 2
    /\ PduIndex(consumed[1]) # PduIndex(consumed[2])
    /\ PduCommandType(consumed[1]) # PduCommandType(consumed[2])
    /\ Len(consumed[1]) # Len(consumed[2])
    /\ data_size = 0

(***************************************************************************)
(* Slot allocator claims                                                   *)
(***************************************************************************)
\* C7: the number of Occupied slots equals the number of add_unit calls that
\* returned Ok minus the number of remove_unit calls that returned Some, and
\* never exceeds the capacity of 10.
C7_OccupiedCount ==
    /\ Cardinality(OccupiedSlots(units)) = adds_ok - removes_some
    /\ Cardinality(OccupiedSlots(units)) <= UNITS_CAPACITY

\* C7 witness: all ten slots are Occupied after units were removed and added again
C7_Witness ==
    /\ Cardinality(OccupiedSlots(units)) = UNITS_CAPACITY
    /\ removes_some >= 2
    /\ adds_ok >= UNITS_CAPACITY + 2

\* C8: following free_unit and the NextFreeUnit links visits every Free slot
\* exactly once, never reaches an Occupied slot, never repeats an index and
\* ends at index units.len(); add_unit never hits unreachable!().
C8_FreeList ==
    LET fl == FreeList(units, free_unit) IN
    /\ SeqToSet(fl.visited) = FreeSlots(units)
    /\ NoRepeat(fl.visited)
    /\ fl.end = Len(units)
    /\ pc # "panic"

\* C8 witness: two Free slots are linked, the lower index first, after an
\* add_unit reused a slot taken from the head of the list
C8_Witness ==
    LET fl == FreeList(units, free_unit) IN
    /\ Len(fl.visited) = 2
    /\ fl.visited[1] < fl.visited[2]
    /\ fl.visited[2] < Len(units) - 1
    /\ adds_ok > Len(units)

\* C10: add_unit returns Err carrying the given unit, leaving the slot array
\* and the free-list head unchanged, exactly when all 10 slots are Occupied;
\* with fewer than 10 Occupied slots it returns Ok with a handle.
C10_AddUnitErr ==
    [][(ret'.op = "add_unit" /\ ret' # ret) =>
          IF Cardinality(OccupiedSlots(units)) = UNITS_CAPACITY
          THEN /\ ~ret'.ok
               /\ ret'.unit = NewUnit(LeastFreeId)
               /\ units' = units
               /\ free_unit' = free_unit
          ELSE /\ ret'.ok
               /\ ret'.handle < UNITS_CAPACITY
               /\ IsOccupied(units', ret'.handle)]_vars

\* C10 witness: add_unit has just returned Err with the unit
C10_Witness ==
    /\ ret.op = "add_unit"
    /\ ~ret.ok
    /\ ret.unit.id # 0
    /\ Cardinality(OccupiedSlots(units)) = UNITS_CAPACITY

\* C11: a remove_unit call whose handle names no Occupied slot (a Free slot,
\* or an index beyond the slots in use) returns None and changes neither a
\* slot nor free_unit; and after any remove_unit call, the same call again
\* returns None and changes nothing.
C11_RemoveIdempotent ==
    [][(calls' = calls + 1 /\ ret'.op = "remove_unit") =>
         /\ ~IsOccupied(units, ret'.handle) =>
               ~ret'.ok /\ units' = units /\ free_unit' = free_unit
         /\ LET again == remove_unit(units', free_unit', ret'.handle) IN
               ~again.ret.ok /\ again.units = units' /\ again.free_unit = free_unit']_vars

\* remove_unit was called on a slot that is Free and not the head of the
\* free list
C11_Witness ==
    /\ ret.op = "remove_unit" /\ ~ret.ok
    /\ IsFree(units, ret.handle) /\ free_unit # ret.handle /\ IsFree(units, free_unit)

\* the slot holds, or held until it was vacated, the PDU of a unit that was
\* removed while its sent flag was set
Abandoned(k) ==
    IF units[k].tag = "Unit" THEN hist[k].stale ELSE hist[k].inflight

\* C12: when a unit was removed with its PDU staged or in flight and every
\* frame of a later poll came back, the dispatch pass does not panic and
\* gives the slot of the removed unit no reply beyond the one a unit added
\* into it since is owed for a command of its own.
C12_AbandonedReplyDropped ==
    [][(pc = "polled" /\ ret.op = "interface.poll" /\ ret.ok /\ calls' = calls) =>
         \A k \in 1..Len(units) :
            Abandoned(k) =>
               /\ pc' # "panic"
               /\ Len(delivered'[k]) <= IF units[k].tag = "Unit" /\ units[k].sent
                                        THEN 1 ELSE 0]_vars

\* C13: when interface.poll ended in ReceiveTimeout with frames still
\* outstanding, the engine's poll returns ReceiveTimeout to its caller, and
\* the dispatch pass gives None to every unit whose sent flag is set and
\* whose index was on no PDU received.
C13_TimeoutLost ==
    [][(pc = "polled" /\ ret.err = "ReceiveTimeout" /\ should_recv_frames > 0
        /\ calls' = calls) =>
         /\ ret'.op = "poll" /\ ~ret'.ok /\ ret'.err = "ReceiveTimeout"
         /\ \A k \in 1..Len(units) :
               (units[k].tag = "Unit" /\ units[k].sent /\ (k - 1) \notin arrived) =>
                  delivered'[k] = <<"None">>]_vars

\* C14: interface.poll returns ReceiveTimeout only while a frame it expects
\* is still outstanding (should_recv_frames > 0).
C14_TimeoutOnlyOutstanding ==
    (ret.op = "interface.poll" /\ ret.err = "ReceiveTimeout") => should_recv_frames > 0

\* C15: when interface.poll ended in DeviceErrorTx or DeviceErrorRx, the
\* engine's poll returns that error to its caller in the same call, no unit
\* receives a recieve_and_process call, and every unit and sent flag stays as
\* the enqueue pass left it.
C15_DeviceErrorSurfaced ==
    [][(pc = "polled" /\ ret.err \in {"DeviceErrorTx", "DeviceErrorRx"} /\ calls' = calls) =>
         /\ pc' = "idle"
         /\ ret'.op = "poll" /\ ~ret'.ok /\ ret'.err = ret.err
         /\ units' = units /\ hist' = hist /\ delivered' = delivered]_vars

\* poll returned DeviceErrorRx after one of two frames had come back: the
\* units keep their sent flags and none has been given a reply
C15_Witness ==
    /\ pc = "idle"
    /\ ret.op = "poll" /\ ret.err = "DeviceErrorRx"
    /\ arrived # {}
    /\ \E k \in 1..Len(units) : units[k].tag = "Unit" /\ units[k].sent /\ (k - 1) \in arrived
    /\ \A k \in 1..Len(units) : delivered[k] = <<>>

\* C16: the engine's poll never returns BufferExhausted to its caller.
C16_BufferExhaustedRecovered ==
    ~(ret.op = "poll" /\ ret.err = "BufferExhausted")

\* C17: on a device that answers every frame, every call to poll comes to an
\* end (it returns, or it stops in a panic): a deferred unit is staged in a
\* later pass of the same call.
C17_PollTerminates == (pc # "idle") ~> (pc \in {"idle", "panic"})

\* next_command of the unit in slot k - 1 returned a command that is not
\* staged: enqueue_commands broke off at it
Deferred(us, hs, k) ==
    /\ us[k].tag = "Unit"
    /\ ~us[k].sent
    /\ hs[k].open
    /\ ~hs[k].inflight
FirstDeferred(us, hs) ==
    CHOOSE k \in 1..Len(us) :
        /\ Deferred(us, hs, k)
        /\ \A j \in 1..(k - 1) : ~Deferred(us, hs, j)
\* the command of the unit is not too long for the empty staging buffer
FitsEmptyBuffer(unit) ==
    ~CapacityBelow(remaing_capacity(0, FALSE), Len(next_command(unit).data))
\* an enqueue pass ran and went on to iface.poll
PassStep == pc \in {"idle", "pass"} /\ ret'.op = "interface.poll"

\* C18: an enqueue pass that defers a unit leaves that unit and every unit
\* of higher index unsent with nothing staged for them; before the next pass
\* the units of lower index have been given their replies; and the next pass
\* of the same call stages the deferred unit's PDU and transmits it (looked
\* at for a deferred unit whose command the empty buffer has room for).
C18_DeferredNextPass ==
    [][/\ (PassStep /\ ~complete') =>
            \A j \in FirstDeferred(units', hist')..Len(units') :
                units'[j].tag = "Unit" => ~units'[j].sent /\ ~hist'[j].inflight
       /\ (/\ PassStep /\ pc = "pass"
           /\ \E k \in 1..Len(units) : Deferred(units, hist, k)
           /\ FitsEmptyBuffer(units[FirstDeferred(units, hist)].unit)) =>
            LET k == FirstDeferred(units, hist) IN
            /\ \A j \in 1..(k - 1) : units[j].tag = "Unit" => ~units[j].sent
            /\ units'[k].sent
            /\ \E f \in 1..Len(sent_frames') : \E p \in 1..Len(sent_frames'[f].pdus) :
                  PduIndex(sent_frames'[f].pdus[p]) = k - 1]_vars

RECURSIVE FrameIndexes(_)
\* the index fields of the PDUs of the frames, in the order they were handed
\* to the device
FrameIndexes(frames) ==
    IF frames = <<>> THEN <<>>
    ELSE [p \in 1..Len(Head(frames).pdus) |-> PduIndex(Head(frames).pdus[p])]
             \o FrameIndexes(Tail(frames))

\* C19: the PDUs a pass of poll hands to the device are in ascending order of
\* slot index, and when no TX token was denied they are the staged PDUs, each
\* once, whatever the earlier calls of poll left behind.
C19_AscendingOnce ==
    [][PassStep =>
          LET idx == FrameIndexes(sent_frames') IN
          /\ \A i, j \in 1..Len(idx) : i < j => idx[i] < idx[j]
          /\ (pc' \in {"receive", "polled"} /\ ret'.err # "DeviceErrorTx") =>
                idx = [k \in 1..Len(staged') |-> staged'[k].index]]_vars

\* C20: in the dispatch pass that follows an iface.poll that returned Ok, a
\* unit whose PDU came back is given its reply (Some) and no lost
\* notification (None) for it.
C20_ReplyNotLost ==
    [][(pc = "polled" /\ calls' = calls /\ ret.op = "interface.poll" /\ ret.ok) =>
          \A k \in 1..Len(units) :
              (units[k].tag = "Unit" /\ units[k].sent /\ (k - 1) \in arrived) =>
                  /\ delivered'[k] # <<>>
                  /\ \A n \in 1..Len(delivered'[k]) : delivered'[k][n] = "Some"]_vars

(***************************************************************************)
(* Unit claims                                                             *)
(***************************************************************************)
\* C21: next_command called twice on an SdoDownloader with no
\* recieve_and_process in between returns the same (Command, data) both
\* times, and the second call changes neither the unit nor the
\* NetworkDescription.
C21_NextCommandIdempotent ==
    [][(out.op = "next_command" /\ out'.op = "next_command") =>
          /\ out'.some = out.some
          /\ out'.command = out.command
          /\ out'.data = out.data
          /\ sdo' = sdo
          /\ desc' = desc]_vars


\* C22: a download driven to completion has advanced the slave record's
\* mailbox counter by exactly one step of 1,2,...,7,1 from its value when the
\* download was started, and the counter placed in a mailbox header is never 0.
C22_CounterOneStep ==
    /\ sdo.state.tag = "Complete" =>
          desc.mailbox_count = increment_mb_count(out.start_count)
    /\ (out.op = "next_command" /\ out.data.mailbox = "write") =>
          out.data.header.count \in 1..7


\* the WKC a reply to the unit must carry
ExpectedWkc(self) == IF self.slave_address.tag = "Single" THEN 1 ELSE self.slave_address.v
\* a valid reply: the command emitted, with the expected WKC
ValidReply(self, recv_data) ==
    /\ recv_data.some
    /\ recv_data.command.c_type = self.command.c_type
    /\ recv_data.command.ado = self.command.ado
    /\ recv_data.wkc = ExpectedWkc(self)
\* more than timeout_ms milliseconds lie between timer_start and time (ns)
ElapsedNs(self, time) ==
    /\ time > self.timer_start
    /\ (time - self.timer_start - 1) \div 1000000 >= self.timeout_ms

\* C23: in Poll, a valid reply leads to Complete when the reported AL state
\* is the target; otherwise to Error(AlStatusCode(state, code)) when the
\* change-error flag is set; otherwise to Error(TimeoutMs) when the timeout
\* has elapsed; otherwise the unit stays in Poll and reads AL status again.
C23_PollTable ==
    [][(al.state.tag = "Poll" /\ out'.op = "recieve_and_process"
            /\ ValidReply(al, out'.recv_data)) =>
          LET d == out'.recv_data.data
              reported == AlState_from(d.state)
          IN IF reported = al.target_al THEN al'.state = Plain("Complete")
             ELSE IF d.change_err
             THEN al'.state = AlSt("Error", reported,
                                   [kind |-> "AlStatusCode", a |-> d.al_status_code,
                                    b |-> 0])
             ELSE IF ElapsedNs(al, sys_time')
             THEN al'.state = ErrorState("TimeoutMs", al.timeout_ms, 0)
             ELSE /\ al'.state = Plain("Poll")
                  /\ AlStateTransfer_next_command(al').command
                        = ReadCommand(al.slave_address, "AlStatus")]_vars

\* C24: Error(TimeoutMs) is entered from Poll only when more than timeout_ms
\* milliseconds (timeout_ms * 1 000 000 ns) have passed since timer_start,
\* the sys_time at which the reply to the Request was processed.
C24_TimeoutInNanoseconds ==
    [][(al.state.tag = "Poll" /\ al'.state.tag = "Error"
            /\ al'.state.err.kind = "TimeoutMs") =>
          ElapsedNs(al, sys_time')]_vars


\* the reply carries another (type, ado) than the command last emitted
OtherCommand(self, recv_data) ==
    ~(recv_data.command.c_type = self.command.c_type
       /\ recv_data.command.ado = self.command.ado)
\* the unit went to Error(kind, a) and nothing else of it changed
OnlyError(kind, a) == al' = [al EXCEPT !.state = ErrorState(kind, a, 0)]
NonTerminal(self) == self.state.tag \notin {"Idle", "Error", "Complete"}

\* C25 as stated: in every non-terminal state a reply with a wrong WKC leads
\* to Error(UnexpectedWKC(wkc)), a reply with another (type, ado) than the
\* command emitted to Error(UnexpectedCommand), a missing reply to
\* Error(LostCommand), and nothing else of the unit changes.
C25_ProtocolErrors ==
    [][(NonTerminal(al) /\ out'.op = "recieve_and_process") =>
          LET r == out'.recv_data IN
          /\ ~r.some => OnlyError("LostCommand", 0)
          /\ (r.some /\ r.wkc # ExpectedWkc(al)) => OnlyError("UnexpectedWKC", r.wkc)
          /\ (r.some /\ OtherCommand(al, r)) => OnlyError("UnexpectedCommand", 0)]_vars

\* C25 (amended): as above, with Error(UnexpectedCommand) for a reply with
\* another (type, ado) whose WKC is the expected one; a reply wrong in both
\* leads to Error(UnexpectedWKC(wkc)).
C25_ProtocolErrorsByPrecedence ==
    [][(NonTerminal(al) /\ out'.op = "recieve_and_process") =>
          LET r == out'.recv_data IN
          /\ ~r.some => OnlyError("LostCommand", 0)
          /\ (r.some /\ r.wkc # ExpectedWkc(al)) => OnlyError("UnexpectedWKC", r.wkc)
          /\ (r.some /\ OtherCommand(al, r) /\ r.wkc = ExpectedWkc(al)) =>
                OnlyError("UnexpectedCommand", 0)]_vars

\* a reply with another command and the expected WKC was processed in Poll
\* and left the unit in Error(UnexpectedCommand) with its timer untouched
C25_Witness ==
    /\ out.op = "recieve_and_process"
    /\ out.recv_data.some
    /\ OtherCommand(al, out.recv_data)
    /\ out.recv_data.wkc = ExpectedWkc(al)
    /\ al.state = ErrorState("UnexpectedCommand", 0, 0)
    /\ al.command = ReadCommand(al.slave_address, "AlStatus")
    /\ al.timeout_ms > 0


\* the timeout (ms) the transition table gives for (current, target)
TableTimeout(current, target) ==
    CASE target = "Operational" -> 10000
      [] target = "SafeOperational" /\ current = "PreOperational" -> 10000
      [] target \in {"PreOperational", "Bootstrap"} -> 3000
      [] target = "Init" -> 5000
      [] target = "SafeOperational" /\ current # "PreOperational" -> 200
      [] OTHER -> 10000

AlLatched ==
    (al.state.tag = "Error" /\ out'.op # "start") =>
        /\ ~unit_sent
        /\ al'.state = al.state
        /\ out'.op = "next_command" /\ ~out'.some
        /\ AlStateTransfer_wait(al') = [some |-> TRUE, ok |-> FALSE, al |-> "",
                                        err |-> al.state.err]
SdoLatched ==
    (sdo.state.tag = "Error" /\ out'.op # "start") =>
        /\ ~unit_sent
        /\ sdo'.state = sdo.state
        /\ out'.op = "next_command" /\ ~out'.some
        /\ SdoDownloader_wait(sdo') = [res |-> "Err", kind |-> sdo.state.kind,
                                       code |-> sdo.state.code]
        /\ \A outcome \in Outcomes(sdo), mailbox \in Mailboxes :
              SdoDownloader_recieve_and_process(sdo', outcome, mailbox) = sdo'

\* C27 as stated: a unit that has entered Error stays in Error with the same
\* error value whatever is called on it in its slot.
C27_ErrorForever ==
    [][/\ al.state.tag = "Error" => al'.state = al.state
       /\ sdo.state.tag = "Error" => sdo'.state = sdo.state]_vars

\* C27 (amended): a unit in Error stays in Error with the same error value
\* until its owner calls start on it again: the engine gets None from
\* next_command, has no reply to hand to the unit, and wait() returns that
\* error.
C27_ErrorUntilStart ==
    [][AlLatched /\ SdoLatched]_vars

\* next_command has been called on a unit in Error and returned None
C27_Witness ==
    /\ out.op = "next_command"
    /\ ~out.some
    /\ \/ al.state.tag = "Error" /\ al.state.err.kind = "UnexpectedWKC"
       \/ sdo.state.tag = "Error"


\* C28: when the mailbox read of ReadDownloadResponse completes, the unit
\* goes to Complete if the command-specifier of the SDO header (which follows
\* the mailbox header and the CoE header) is 3, to Error(AbortCode(code)) if
\* it is 4, code being the four little-endian bytes after the SDO header, and
\* to Error(UnexpectedResponse) otherwise; while the reader is pending it
\* stays in ReadDownloadResponse.
C28_ResponseParsed ==
    [][(sdo.state.tag = "ReadDownloadResponse" /\ out'.op = "recieve_and_process") =>
          /\ out'.outcome = "Ok" =>
                sdo'.state = ParsedResponse(out'.mailbox,
                                            MAILBOX_HEADER_SIZE + COE_HEADER_SIZE)
          /\ out'.outcome = "WouldBlock" =>
                sdo'.state.tag = "ReadDownloadResponse"]_vars


\* the bytes a PDU with `len` payload bytes takes in the staging buffer
PduSize(len) == ETHERCATPDU_HEADER_LENGTH + len + WKC_LENGTH

\* C29: add_command returns BufferExhausted exactly when data_size + PDU
\* header + payload + WKC exceeds the buffer size or the payload exceeds the
\* MTU limit; a failed call leaves buffer and data_size as they were, a
\* successful one advances data_size by PDU header + payload + WKC.
C29_BufferExhaustedExactly ==
    [][(calls' = calls + 1 /\ ret'.op = "add_command") =>
          LET exceeds == \/ data_size + PduSize(ret'.len) > buffer_size
                         \/ ret'.len > MtuPayloadLimit
          IN /\ (ret'.err = "BufferExhausted") <=> exceeds
             /\ ~ret'.ok => buffer' = buffer /\ data_size' = data_size
             /\ ret'.ok => data_size' = data_size + PduSize(ret'.len)
             /\ ret'.ok \/ ret'.err = "BufferExhausted"]_vars

\* C30: after a successful add_command the two bytes of the new PDU's
\* working-counter trailer are 0, whatever the buffer held, and no byte
\* outside [old data_size, new data_size) has changed.
C30_TrailerZeroed ==
    [][(calls' = calls + 1 /\ ret'.op = "add_command" /\ ret'.ok) =>
          /\ buffer'[data_size' - 1] = 0 /\ buffer'[data_size'] = 0
          /\ \A i \in 1..Len(buffer) :
                (i <= data_size \/ i > data_size') => buffer'[i] = buffer[i]]_vars


\* C31: every frame transmit hands to the device, the second and later
\* frames of a poll included, has the length ETH_HDR + EC_HDR + the summed
\* sizes of the PDUs written into it, and writing the PDUs into a frame never
\* fails for lack of room.
C31_FrameLength ==
    /\ \A k \in 1..Len(sent_frames) :
          sent_frames[k].len = ETHERNET_HEADER_LENGTH + ETHERCAT_HEADER_LENGTH
                               + SumLen(sent_frames[k].pdus, Len(sent_frames[k].pdus))
    /\ ~(ret.op = "interface.poll" /\ ret.err = "panic" /\ rx_size = 0 /\ arrived = {})


\* C32: interface.poll goes on calling recv until should_recv_frames is 0 or
\* the timer has fired: it ends in no other way (a recv that finds no frame
\* does not end it), and a frame from the master's own MAC or of another
\* EtherType is skipped without being counted or copied.
C32_ReceiveUntilDone ==
    [][/\ (pc = "receive" /\ pc' = "polled") =>
             (should_recv_frames' = 0 \/ ret'.err = "ReceiveTimeout")
       /\ (pc = "receive" /\ pc' = "receive" /\ wire' = wire) =>
             /\ should_recv_frames' = should_recv_frames
             /\ rx_size' = rx_size
             /\ buffer' = buffer]_vars


\* C33: on a valid reply Read goes to Complete when the reported state is
\* the target, else to ResetError(reported state, Init for a mixed one) when
\* the change-error flag is set, else to ResetSiiOwnership; ResetError(al)
\* goes to OffAck(al), OffAck to Read, ResetSiiOwnership to Request, Request
\* to Poll. Idle and Complete emit no command, and only start leaves Idle.
C33_TransitionTable ==
    [][/\ (out'.op = "recieve_and_process" /\ ValidReply(al, out'.recv_data)) =>
             LET d == out'.recv_data.data
                 reported == AlState_from(d.state)
                 tag == al.state.tag
             IN /\ tag = "Read" =>
                      al'.state =
                         IF reported = al.target_al THEN Plain("Complete")
                         ELSE IF d.change_err
                         THEN AlSt("ResetError",
                                   IF reported = "InvalidOrMixed" THEN "Init"
                                   ELSE reported, NoError)
                         ELSE Plain("ResetSiiOwnership")
                /\ tag = "ResetError" => al'.state = AlSt("OffAck", al.state.al, NoError)
                /\ tag = "OffAck" => al'.state = Plain("Read")
                /\ tag = "ResetSiiOwnership" => al'.state = Plain("Request")
                /\ tag = "Request" => al'.state = Plain("Poll")
       /\ (al.state.tag \in {"Idle", "Complete"} /\ out'.op = "next_command") =>
             ~out'.some /\ ~unit_sent' /\ al' = al
       /\ (al.state.tag = "Idle" /\ al'.state.tag # "Idle") =>
             out'.op = "start" /\ al'.state = Plain("Read")]_vars

\* a Read reply reporting a mixed state with the change-error flag set has
\* taken the unit to ResetError(Init)
C33_Witness ==
    /\ out.op = "recieve_and_process"
    /\ out.recv_data.some
    /\ out.recv_data.data.state = 0
    /\ out.recv_data.data.change_err
    /\ al.state = AlSt("ResetError", "Init", NoError)


\* C34: the mailbox write of a download is emitted only in
\* WriteDownloadRequest, which is entered only when the reader has reported
\* MailboxEmpty in CheckMailboxEmpty; there a populated mailbox leads to
\* Error(MailboxAlreadyExisted), another reader error to Error, and a pending
\* reader leaves the state as it is; with an unknown slave the write step
\* ends in Error(NoSlave) and emits nothing.
C34_WriteAfterEmpty ==
    [][/\ (sdo.state.tag = "CheckMailboxEmpty" /\ out'.op = "recieve_and_process") =>
             sdo'.state =
                CASE out'.outcome = "Ok" -> SdoError("MailboxAlreadyExisted", 0)
                  [] out'.outcome = "MailboxEmpty" -> SdoSt("WriteDownloadRequest", TRUE, "", 0)
                  [] out'.outcome = "WouldBlock" -> sdo.state
                  [] OTHER -> SdoError(out'.outcome, 0)
       /\ (sdo'.state.tag = "WriteDownloadRequest" /\ sdo.state.tag # "WriteDownloadRequest") =>
             /\ sdo.state.tag = "CheckMailboxEmpty"
             /\ out'.op = "recieve_and_process" /\ out'.outcome = "MailboxEmpty"
       /\ (out'.op = "next_command" /\ out'.some /\ out'.data.mailbox = "write") =>
             sdo.state.tag = "WriteDownloadRequest" /\ HasSlave(sdo.slave_address)
       /\ (out'.op = "next_command" /\ sdo.state.tag = "WriteDownloadRequest"
              /\ ~HasSlave(sdo.slave_address)) =>
             ~out'.some /\ ~unit_sent' /\ sdo'.state = SdoError("NoSlave", 0)]_vars

\* the write of a download has been emitted, after the reader reported
\* MailboxEmpty
C34_Witness ==
    /\ out.op = "next_command"
    /\ out.some
    /\ out.data.mailbox = "write"
    /\ sdo.reader.status = "MailboxEmpty"
    /\ sdo.state = SdoSt("WriteDownloadRequest", TRUE, "", 0)


\* the PDUs in the staging buffer that carry index i
StagedWithIndex(i) ==
    LET pdus == EtherCATPDUs(SubSeq(buffer, 1, data_size), data_size) IN
    {k \in 1..Len(pdus) : PduIndex(pdus[k]) = i}

\* C35: between engine API calls the staging buffer holds exactly one PDU
\* with index i when slot i is occupied with its sent flag set, and none
\* otherwise; after a poll that returned Ok no sent flag is set and data_size
\* is 0.
C35_StagedMatchesSent ==
    pc = "idle" =>
        /\ \A i \in 0..(MaxSlots - 1) :
              Cardinality(StagedWithIndex(i)) =
                 IF IsOccupied(units, i) /\ units[i + 1].sent THEN 1 ELSE 0
        /\ (ret.op = "poll" /\ ret.ok) =>
              /\ data_size = 0
              /\ \A i \in OccupiedSlots(units) : ~units[i + 1].sent


\* C36: whenever interface.poll can be called, should_recv_frames is 0 (no
\* frame of an earlier poll is still expected), and the check of receive that
\* the received bytes equal the staged bytes never fails.
C36_NoFrameCarriedOver ==
    /\ pc = "idle" => should_recv_frames = 0
    /\ ~(ret.op = "interface.poll" /\ ret.err = "assert_eq")


\* C37: a transfer that was started reaches Complete or Error (wait()
\* returns Some), whatever the slave reports, when every command it emits is
\* answered or reported lost and sys_time moves on.
C37_TransferEnds ==
    (al.state.tag \notin {"Idle", "Complete", "Error"})
        ~> (AlStateTransfer_wait(al).some)


\* C38: one call of mailbox() sends the request at most once and only after
\* the drain loop saw SM1 not full and the wait saw SM0 empty; it returns Ok
\* only with the request sent once and a mailbox received whose counter is
\* the mailbox_count sent; a received mailbox of type Error ends the call
\* with MailboxError, one of another type and another counter is discarded
\* and the call waits for SM1 again; a wait reads the status at most
\* max_attempt + 1 times, and exactly so often when it ends in MailboxTimeout.
C38_MailboxExchange ==
    [][mb.pc \notin {"idle", "returned"} =>
       /\ mb'.sends # mb.sends =>
            /\ mb.pc = "send" /\ mb.sends = 0 /\ mb'.sends = 1
            /\ mb.drained /\ mb.sm0_empty
            /\ mb'.request.count = mb.mailbox_count
       /\ (mb'.ret = "Ok" /\ mb.ret # "Ok") =>
            /\ mb.pc = "receive" /\ mb'.sends = 1
            /\ mb'.received.count = mb'.request.count
            /\ mb'.received.mailbox_type # MailboxType_Error
       /\ (mb.pc = "receive" /\ mb'.received # mb.received) =>
            IF mb'.received.mailbox_type = MailboxType_Error
            THEN mb'.pc = "returned" /\ mb'.ret = "MailboxError"
            ELSE mb'.received.count # mb.request.count =>
                    mb'.pc = "wait_sm1" /\ mb'.ret = "" /\ mb'.sends = mb.sends
       /\ mb'.pc \in {"wait_sm0", "wait_sm1"} => mb'.reads <= mb'.max_attempt
       /\ mb'.reads <= mb'.max_attempt + 1
       /\ (mb'.ret = "MailboxTimeout" /\ mb.ret = "") =>
            /\ mb.pc \in {"wait_sm0", "wait_sm1"}
            /\ mb'.reads = mb'.max_attempt + 1]_vars

\* a call that discarded a mailbox with another counter and returned Ok
C38_Witness ==
    /\ mb.ret = "Ok" /\ mb.discarded /\ mb.sends = 1
    /\ mb.received.count = mb.mailbox_count

Spec == Init /\ [][Next]_vars
====
